---- MODULE Spec2Model ----
(***************************************************************************)
(* Model of the openpilot UI scene engine (selfdrive/ui/ui.cc, ui.h and    *)
(* paint.cc): the per-tick update of the scene (update_state,              *)
(* update_status, update_vision), its animation controllers, and the       *)
(* projection of model geometry into vertex buffers.                       *)
(*                                                                         *)
(* Units.  Time is counted in tenths of a second (0.1 s), so that          *)
(* fade_duration = 0.3 s is 3, paramsCheckFreq = 0.1 s is 1, and so on.    *)
(* screen_dim_fade is counted in 1/2000 (1.0 is 2000, 0.5 is 1000, 0.01 is *)
(* 20), which keeps every screen_dim_fade_step an integer.  The indicator  *)
(* fades are counted in thirds (1.0 is FadeOne = 3) because                *)
(* fade_time_step is 1/0.3 per second = 1/3 per time unit;                 *)
(* dynamic_follow_level is counted in fifths (dynamic_follow_fade_step is  *)
(* 1/0.5 per second = 1/5 per time unit).  Arithmetic is exact: the        *)
(* rounding of the C++ floats is not modelled.                             *)
(***************************************************************************)
EXTENDS Integers, Sequences, FiniteSets, TLC

\* ------------------------------------------------------------------ bounds
\* seconds_since_boot() at the first tick (the process starts after boot).
Uptime == 40
\* The clock is followed for MaxT time units after the first tick.
MaxT == 4
\* The largest time between two ticks (0 .. MaxDt).
MaxDt == 2

\* Samples per model line (the program's TRAJECTORY_SIZE, scaled down).
TRAJECTORY_SIZE == 3
\* Ticks of a behaviour that counts SubMaster frames.
MaxFrame == 104

\* --------------------------------------------------------- program constants
screen_dim_modes_v == <<20, 1000, 2000>>
screen_dim_mode_max == 2
screen_dim_fade_dur_up == 5
screen_dim_fade_dur_down == 20
paramsCheckFreq == 1

fade_duration == 3
dynamic_follow_fade_duration == 5
\* "t - scene.sessionInitTime > 3." in time units
session_fade_delay == 30

\* 1.0 on the scale of brake_indicator_alpha and one_pedal_fade
FadeOne == fade_duration
\* 1.0 on the scale of dynamic_follow_level
FollowOne == dynamic_follow_fade_duration
\* (mutation of fade_time_step: the follow ease's duration is used)
fade_time_step_FromFollow == FadeOne \div dynamic_follow_fade_duration

\* per time unit, on those scales
fade_time_step == FadeOne \div fade_duration
dynamic_follow_fade_step == FollowOne \div dynamic_follow_fade_duration

\* Lengths are counted in millimetres, pixels in whole pixels.
\* calib_frame_to_full_frame: margin = 500.0f
margin == 500
\* twice ZOOM (2138.5, not TICI); y_offset is 0
ZOOM2 == 4277
\* the framebuffer, vwp_w x vwp_h
fb_w == 1920
fb_h == 1080
\* modeldata.h: 10 m and 100 m
MIN_DRAW_DISTANCE == 10000
MAX_DRAW_DISTANCE == 100000
\* std::size(scene.lane_line_vertices), std::size(scene.road_edge_vertices)
NumLaneLines == 4
NumRoadEdges == 2

\* const int UI_FREQ = 20
UI_FREQ == 20
PandaTypes == {"UNKNOWN", "UNO"}

\* ui.h: layout constants
bdr_s == 30
footer_h == 280
laneless_btn_touch_pad == 80
brake_size == 90
face_wheel_radius == 88
speed_sgn_r == 96
speed_sgn_touch_pad == 60
\* UIScene: measure_max_num_slots = 10
measure_max_num_slots == 10

UIStatus == {"STATUS_DISENGAGED", "STATUS_ENGAGED", "STATUS_WARNING", "STATUS_ALERT"}
AlertStatus == {"NORMAL", "USER_PROMPT", "CRITICAL"}

\* screen_dim_modes_v[i] with the C++ 0-based index
DimV(i) == screen_dim_modes_v[i + 1]

VARIABLES
  \* clock and params polling
  lastTime, paramsCheckLast,
  \* dimming controller
  screen_dim_mode, screen_dim_mode_cur, screen_dim_mode_last,
  screen_dim_fade, screen_dim_fade_last_t, screen_dim_fade_step,
  \* onroad/offroad and status
  status, started, started_prev, ignition,
  \* indicator fades and level ease
  brake_percent, brake_indicator_alpha, brake_indicator_last_t,
  one_pedal_fade, one_pedal_fade_last_t, sessionInitTime,
  car_state, controls_state_vCruise,
  disableDisengageOnGasEnabled, onePedalModeActive,
  dynamic_follow_level, dynamic_follow_level_ui, dynamic_follow_last_t,
  \* what the last update_state call read before it wrote (history)
  obs_dim, obs_fade,
  \* time for which brake_percent > 50 has been held since the brake fade
  \* was at 0 (history; -1 when that is not the case)
  brake_held,
  \* the topics that publish in this behaviour
  feed,
  \* projection: calibration, the modelV2 message held by the SubMaster, and
  \* the vertex buffers built from it
  view_from_calib, world_objects_visible, modelV2, model_pc,
  track_vertices, lane_line_vertices, road_edge_vertices, lead_vertices,
  \* what the last update_model call computed on the way (history)
  obs_model,
  \* the SubMaster's frame counter and pandaState's frame of receipt, the
  \* panda type, and what the last tick read (history)
  frame, pandaState_rcv_frame, pandaType, obs_panda,
  \* vision: the client's connection; whether a liveCalibration has ever been
  \* processed and what the last tick and the paint since it did (history)
  vipc_connected, calib_seen, obs_vision,
  \* layout: the latest controlsState and longitudinalPlan in the SubMaster,
  \* the scene's flags, the hit regions (a record of the scene's Rect fields),
  \* and the hit regions before the last paint with the number of paints
  \* since the last tick (history)
  sm_controlsState, sm_longitudinalPlan, engageable, show_debug_ui, end_to_end,
  accel_mode_button_enabled, dynamic_follow_mode_button_enabled,
  measure_cur_num_slots, rects, obs_layout,
  \* the params store, as far as a session's start reads it
  session_params,
  \* the last touch and the hit regions it was inside (history)
  obs_touch,
  \* the last read of a lookup table: its inputs, its index, what became of
  \* it (history)
  obs_lookup,
  \* radarState's lead as the scene holds it, and the last text of the
  \* LEAD_TTC measure (history)
  lead_status, lead_d_rel, lead_v_rel, obs_measure,
  \* the last tick's controlsState message with the status and started it
  \* met (history)
  obs_status,
  \* QUIState: started_prev, the update timer's interval, and what the last
  \* tick emitted (history)
  qui,
  \* the two vision clients and which one is in use
  clients,
  \* Device: awake, awake_timeout, last_brightness, the backlight and its
  \* writers
  device,
  \* the percent-grade state of the scene
  grade

timeVars == <<lastTime, paramsCheckLast>>
dimVars == <<screen_dim_mode, screen_dim_mode_cur, screen_dim_mode_last,
             screen_dim_fade, screen_dim_fade_last_t, screen_dim_fade_step, obs_dim>>
statusVars == <<status, started, started_prev, ignition>>
fadeVars == <<brake_percent, brake_indicator_alpha, brake_indicator_last_t,
              one_pedal_fade, one_pedal_fade_last_t, sessionInitTime,
              car_state, controls_state_vCruise,
              disableDisengageOnGasEnabled, onePedalModeActive,
              dynamic_follow_level, dynamic_follow_level_ui, dynamic_follow_last_t,
              obs_fade, brake_held>>
modelVars == <<view_from_calib, world_objects_visible, modelV2, model_pc, track_vertices,
               lane_line_vertices, road_edge_vertices, lead_vertices, obs_model>>
pandaVars == <<frame, pandaState_rcv_frame, pandaType, obs_panda>>
visionVars == <<vipc_connected, calib_seen, obs_vision>>
layoutVars == <<sm_controlsState, sm_longitudinalPlan, engageable, show_debug_ui,
                end_to_end, accel_mode_button_enabled,
                dynamic_follow_mode_button_enabled, measure_cur_num_slots, rects,
                obs_layout, session_params>>
measureVars == <<lead_status, lead_d_rel, lead_v_rel, obs_measure>>
extraVars == <<obs_status, qui, clients, device, grade>>
probeVars == <<obs_touch, obs_lookup, measureVars, extraVars>>
vars == <<timeVars, dimVars, statusVars, fadeVars, feed, modelVars, pandaVars, visionVars,
          layoutVars, probeVars>>

\* ------------------------------------------------------------------- clock
\* t = seconds_since_boot(): monotonic; the first call returns the uptime.
\* The behaviours that follow a session past its first 3 s run that much
\* longer.
ClockSpan == IF feed = "pedal_window" THEN session_fade_delay + MaxT ELSE MaxT
Clock == IF lastTime = 0 THEN {Uptime}
         ELSE {t \in lastTime .. lastTime + MaxDt : t <= Uptime + ClockSpan}

\* --------------------------------------------------------- dimming controller
\* (mutation of DimModeCur: STATUS_WARNING steps one tier down)
DimModeCur_Dimmer(st, mode) ==
  IF st = "STATUS_WARNING" THEN (IF mode - 1 < 0 THEN 0 ELSE mode - 1)
  ELSE IF st = "STATUS_ALERT" THEN screen_dim_mode_max
  ELSE mode

\* the tier the fade heads for
DimModeCur(st, mode) ==
  IF st = "STATUS_WARNING"
    THEN (IF mode + 1 > screen_dim_mode_max THEN screen_dim_mode_max ELSE mode + 1)
  ELSE IF st = "STATUS_ALERT" THEN screen_dim_mode_max
  ELSE mode

\* (mutation of DimSnap: STATUS_ALERT only retargets, the fade eases)
DimSnap_Eased(st, fade) == fade

\* STATUS_ALERT writes the fade directly
DimSnap(st, fade) ==
  IF st = "STATUS_ALERT" THEN DimV(screen_dim_mode_max) ELSE fade

\* the step is recomputed only when the tier differs from the last call's
DimFadeStep(cur, last, step) ==
  IF cur # last
    THEN LET d == DimV(cur) - DimV(last)
         IN  d \div (IF d > 0 THEN screen_dim_fade_dur_up ELSE screen_dim_fade_dur_down)
    ELSE step

\* one step of the fade, clamped on the side it started from
DimFadeAdvance(fade, target, step, dt) ==
  IF fade > target
    THEN LET f == fade + step * dt IN IF f < target THEN target ELSE f
  ELSE IF fade < target
    THEN LET f == fade + step * dt IN IF f > target THEN target ELSE f
  ELSE fade

\* update_state, "fade screen brightness" (reads the status and started of
\* the previous tick and the screen_dim_mode just read from the params)
UpdateScreenDim(t) ==
  /\ IF started
       THEN LET cur  == DimModeCur(status, screen_dim_mode')
                f0   == DimSnap(status, screen_dim_fade)
                step == DimFadeStep(cur, screen_dim_mode_last, screen_dim_fade_step)
            IN  /\ screen_dim_mode_cur' = cur
                /\ screen_dim_fade_step' = step
                /\ screen_dim_fade' =
                     DimFadeAdvance(f0, DimV(cur), step, t - screen_dim_fade_last_t)
       ELSE /\ screen_dim_mode_cur' = screen_dim_mode_max
            /\ screen_dim_fade' = DimV(screen_dim_mode_max)
            /\ screen_dim_fade_step' = screen_dim_fade_step
  /\ screen_dim_mode_last' = screen_dim_mode_cur'
  /\ screen_dim_fade_last_t' = t
  /\ obs_dim' = [ran |-> TRUE, started |-> started, status |-> status,
                 fade |-> screen_dim_fade]

\* update_state, params polled at 10 Hz (ScreenDimMode)
ParamsDue(t) == t - paramsCheckLast > paramsCheckFreq

ParamsCheckDim(t) ==
  IF ParamsDue(t)
    THEN \E pMode \in 0 .. screen_dim_mode_max : screen_dim_mode' = pMode
    ELSE UNCHANGED screen_dim_mode

\* update_state: the poll time, and the clock value kept at the end
UpdateTime(t) ==
  /\ paramsCheckLast' = (IF ParamsDue(t) THEN t ELSE paramsCheckLast)
  /\ lastTime' = t

\* --------------------------------------------------------------- status
\* the messages a tick may find: sm.updated(topic) and the payload read
NoControlsState ==
  [updated |-> FALSE, alert |-> "NORMAL", enabled |-> FALSE, vCruise |-> 0]
ControlsStates ==
  {m \in [updated : BOOLEAN, alert : AlertStatus, enabled : BOOLEAN, vCruise : {0}] :
     ~m.updated => m = NoControlsState}
PandaStates ==
  {m \in [updated : BOOLEAN, ignition : BOOLEAN] : ~m.updated => ~m.ignition}

\* update_state: pandaState carries the ignition
PandaIgnition(panda) ==
  IF panda.updated THEN panda.ignition ELSE ignition

\* update_state: scene.started
SceneStarted(devStarted, ign) == devStarted /\ ign

StatusFromControls(cs) ==
  IF cs.alert = "USER_PROMPT" THEN "STATUS_WARNING"
  ELSE IF cs.alert = "CRITICAL" THEN "STATUS_ALERT"
  ELSE IF cs.enabled THEN "STATUS_ENGAGED" ELSE "STATUS_DISENGAGED"

\* (mutation of StatusAfter: a session's start keeps the status the message
\* gave)
StatusAfter_NoReset(cs) ==
  IF started' /\ cs.updated THEN StatusFromControls(cs) ELSE status

\* update_status: the status after the tick (uses the started just computed)
StatusAfter(cs) ==
  LET s1 == IF started' /\ cs.updated THEN StatusFromControls(cs) ELSE status
  IN  IF started' # started_prev /\ started' THEN "STATUS_DISENGAGED" ELSE s1

\* update_status, as far as the status goes
UpdateStatus(cs) ==
  /\ status' = StatusAfter(cs)
  /\ started_prev' = started'

\* update_status: an offroad -> onroad transition in this tick
SessionStarts == started' # started_prev /\ started'

\* ------------------------------------------------ indicator fades, level ease
\* Which controller's topics publish in a behaviour (the three controllers
\* share no state but the clock and the session; exploring them one at a time
\* keeps the state space the sum, not the product, of theirs).
Feeds == {"brake", "one_pedal", "follow"}

\* the carState fields the fades read; NoCarState is the default Reader
NoCarState == [updated |-> FALSE, brake |-> 0, onePedal |-> FALSE]
CarStates ==
  {NoCarState} \cup
  (IF feed = "brake" THEN [updated : {TRUE}, brake : {50, 51}, onePedal : {FALSE}]
   ELSE IF feed \in {"one_pedal", "pedal_icon", "pedal_window"}
     THEN [updated : {TRUE}, brake : {0}, onePedal : BOOLEAN]
   ELSE {})
\* longitudinalPlan.dynamicFollowLevel (0 = close, 1 = medium, 2 = far, and
\* values between)
NoLongPlan == [updated |-> FALSE, level |-> 0]
LongPlans ==
  {NoLongPlan} \cup
  (IF feed = "follow"
     THEN [updated : {TRUE}, level : {0, 2, FollowOne, 2 * FollowOne}]
     ELSE {})
\* controlsState as the one-pedal fade reads it (vCruise), without alerts
ControlsStatesFade ==
  {NoControlsState} \cup
  (IF feed = "one_pedal"
     THEN [updated : {TRUE}, alert : {"NORMAL"}, enabled : BOOLEAN, vCruise : {0, 40}]
     ELSE {})
\* pandaState and deviceState.started; the behaviours that follow a session
\* past its first 3 s have one session: the ignition comes on at some tick
\* and stays on
PandaStatesFade ==
  IF feed = "pedal_window" THEN {m \in PandaStates : m.updated => m.ignition}
  ELSE PandaStates
DeviceStartedFade == IF feed = "pedal_window" THEN {TRUE} ELSE BOOLEAN
\* the params DisableDisengageOnGas and OnePedalMode, FrictionBrakePercent
ParamsOnePedal == IF feed = "one_pedal" THEN BOOLEAN ELSE {FALSE}
ParamsBrakePercent == IF feed = "brake" THEN {0, 51} ELSE {0}

\* (mutation of BrakeFade: the upper clamp is missing)
BrakeFade_NoClamp(alpha, bp, dt) ==
  IF bp > 50
    THEN (IF alpha < FadeOne THEN alpha + fade_time_step * dt ELSE alpha)
  ELSE IF alpha > 0
    THEN LET a == alpha - fade_time_step * dt IN IF a < 0 THEN 0 ELSE a
  ELSE alpha

\* update_state: brake indicator fade
BrakeFade(alpha, bp, dt) ==
  IF bp > 50
    THEN (IF alpha < FadeOne
            THEN LET a == alpha + fade_time_step * dt
                 IN  IF a > FadeOne THEN FadeOne ELSE a
            ELSE alpha)
  ELSE IF alpha > 0
    THEN LET a == alpha - fade_time_step * dt IN IF a < 0 THEN 0 ELSE a
  ELSE alpha

\* update_state: the condition under which the one-pedal icon is shown
OnePedalCond(cs_onePedal, st, vCruise, opActive, ddog) ==
  cs_onePedal \/ (st = "STATUS_DISENGAGED" /\ vCruise <= 3 /\ (opActive \/ ddog))

\* (mutation of OnePedalFade: the fade also moves in a session's first 3 s)
OnePedalFade_NoWindow(fade, cond, t, dt) ==
  IF cond
    THEN LET f == fade + fade_time_step * dt
         IN  IF f > FadeOne THEN FadeOne ELSE f
  ELSE IF fade > -FadeOne
    THEN LET f == fade - fade_time_step * dt
         IN  IF f < -FadeOne THEN -FadeOne ELSE f
  ELSE fade

\* update_state: one-pedal fade, frozen in the first 3 s of a session
OnePedalFade(fade, cond, t, dt) ==
  IF t - sessionInitTime > session_fade_delay
    THEN IF cond
           THEN LET f == fade + fade_time_step * dt
                IN  IF f > FadeOne THEN FadeOne ELSE f
         ELSE IF fade > -FadeOne
           THEN LET f == fade - fade_time_step * dt
                IN  IF f < -FadeOne THEN -FadeOne ELSE f
         ELSE fade
    ELSE fade

\* update_state: dynamic follow level ease
FollowEase(ui, level, dt) ==
  IF level # ui
    THEN IF level > ui
           THEN LET u == ui + dynamic_follow_fade_step * dt
                IN  IF u > level THEN level ELSE u
           ELSE LET u == ui - dynamic_follow_fade_step * dt
                IN  IF u < level THEN level ELSE u
    ELSE ui

\* update_state: the params the one-pedal fade depends on
ParamsCheckFade(t) ==
  IF ParamsDue(t)
    THEN \E ddog \in ParamsOnePedal, op \in ParamsOnePedal :
           /\ disableDisengageOnGasEnabled' = ddog
           /\ onePedalModeActive' = (IF ddog THEN op ELSE onePedalModeActive)
    ELSE UNCHANGED <<disableDisengageOnGasEnabled, onePedalModeActive>>

\* update_state, from the carState handler to the end, as far as the fades
\* go; then update_status' session start (FrictionBrakePercent, the session
\* time), which runs after update_state in the same tick
UpdateFades(t, car, cs, lp, pBrake) ==
  LET bp1   == IF car.updated THEN car.brake ELSE brake_percent
      cst   == IF car.updated THEN car ELSE car_state
      vc    == IF started /\ cs.updated THEN cs.vCruise ELSE controls_state_vCruise
      level == IF lp.updated THEN lp.level ELSE dynamic_follow_level
      cond  == OnePedalCond(cst.onePedal, status, vc,
                            onePedalModeActive', disableDisengageOnGasEnabled')
      alpha == BrakeFade(brake_indicator_alpha, bp1, t - brake_indicator_last_t)
  IN  /\ car_state' = cst
      /\ controls_state_vCruise' = vc
      /\ dynamic_follow_level' = level
      /\ brake_indicator_alpha' = alpha
      /\ brake_indicator_last_t' = t
      /\ one_pedal_fade' = OnePedalFade(one_pedal_fade, cond, t, t - one_pedal_fade_last_t)
      /\ one_pedal_fade_last_t' = t
      /\ dynamic_follow_level_ui' =
           FollowEase(dynamic_follow_level_ui, level, t - dynamic_follow_last_t)
      /\ dynamic_follow_last_t' = t
      /\ brake_percent' = (IF SessionStarts THEN pBrake ELSE bp1)
      /\ sessionInitTime' = (IF SessionStarts THEN t ELSE sessionInitTime)
      /\ obs_fade' = [ran |-> TRUE, alpha |-> brake_indicator_alpha,
                      brake_target |-> (IF bp1 > 50 THEN FadeOne ELSE 0),
                      pedal |-> one_pedal_fade, pedal_cond |-> cond,
                      pedal_frozen |-> ~(t - sessionInitTime > session_fade_delay),
                      pedal_dt |-> (IF feed = "pedal_window"
                                      THEN t - one_pedal_fade_last_t ELSE 0),
                      was_frozen |-> (feed = "pedal_window" /\ obs_fade.pedal_frozen),
                      level_ui |-> dynamic_follow_level_ui]
      /\ brake_held' =
           (IF bp1 > 50
              THEN (IF brake_held >= 0 THEN brake_held + (t - brake_indicator_last_t)
                    ELSE IF brake_indicator_alpha = 0 THEN t - brake_indicator_last_t
                    ELSE -1)
              ELSE -1)

\* ------------------------------------------------- calibration, projection
Zero3 == <<<<0, 0, 0>>, <<0, 0, 0>>, <<0, 0, 0>>>>
\* view_from_device * euler2rot(0, 0, 0): the calibration with no rotation
ViewFromDevice == <<<<0, 1, 0>>, <<0, 0, 1>>, <<1, 0, 0>>>>
\* a matrix entry that is not a number, kept apart from the entries of a
\* rotation, which lie in -1 .. 1
NaN == 2
\* view_from_device * euler2rot(rpy) for an rpy holding a NaN: sin and cos of
\* a NaN are NaN, and so is every sum of products they enter
NaN3 == <<<<NaN, NaN, NaN>>, <<NaN, NaN, NaN>>, <<NaN, NaN, NaN>>>>
\* the liveCalibration handler: the matrix it stores for the message's
\* rpyCalib, whatever the orientation is
CalibKinds == {"none", "valid", "degenerate"}
ViewFromCalib(kind, held) ==
  CASE kind = "valid" -> ViewFromDevice
    [] kind = "degenerate" -> NaN3
    [] OTHER -> held

matvecmul3(M, p) ==
  [i \in 1 .. 3 |-> M[i][1] * p[1] + M[i][2] * p[2] + M[i][3] * p[3]]

\* n / d rounded down, for d # 0
FloorDiv(n, d) == IF d > 0 THEN n \div d ELSE (-n) \div (-d)

\* lo <= n / d <= hi, exactly, for d # 0
RatioWithin(n, d, lo, hi) ==
  IF d > 0 THEN lo * d <= n /\ n <= hi * d
           ELSE lo * d >= n /\ n >= hi * d

\* (mutation of ClipMargin: the margin is 1000)
ClipMargin_Wide == 2 * margin

\* the clipping tolerance of calib_frame_to_full_frame
ClipMargin == margin

\* calib_frame_to_full_frame.  The intrinsic matrix K = (f 0 cx; 0 f cy; 0 0 1)
\* and car_space_transform (ui_resize: translate to the middle of the
\* framebuffer, scale by ZOOM / f, translate by -(cx, cy)) compose to
\*   out.x = ZOOM * Ep[0] / Ep[2] + fb_w / 2,
\*   out.y = ZOOM * Ep[1] / Ep[2] + fb_h / 2.
\* A zero depth Ep[2] gives an infinity or a NaN, for which the comparisons
\* of the return statement are false.  The stored pixel is rounded down; the
\* comparisons are made on the exact quotient.
calib_frame_to_full_frame(M, in_x, in_y, in_z) ==
  LET Ep == matvecmul3(M, <<in_x, in_y, in_z>>)
      d  == 2 * Ep[3]
      nx == ZOOM2 * Ep[1]
      ny == ZOOM2 * Ep[2]
  IN  IF d = 0
        THEN [x |-> 0, y |-> 0, finite |-> FALSE, visible |-> FALSE]
        ELSE [x |-> FloorDiv(nx, d) + fb_w \div 2,
              y |-> FloorDiv(ny, d) + fb_h \div 2,
              finite |-> TRUE,
              visible |->
                /\ RatioWithin(nx, d, -ClipMargin - fb_w \div 2, fb_w \div 2 + ClipMargin)
                /\ RatioWithin(ny, d, -ClipMargin - fb_h \div 2, fb_h \div 2 + ClipMargin)]

\* ------------------------------------------------------------ vertex buffers
\* (mutation of VertexCapacity: the buffer holds TRAJECTORY_SIZE vertices)
VertexCapacity_Half == TRAJECTORY_SIZE

\* line_vertices_data: vertex_data v[TRAJECTORY_SIZE * 2]
VertexCapacity == TRAJECTORY_SIZE * 2

NoVertex == [x |-> 0, y |-> 0, finite |-> TRUE]
EmptyLine == [v |-> [k \in 1 .. VertexCapacity |-> NoVertex], cnt |-> 0]

\* get_path_length_idx, the loop from index i on
RECURSIVE PathLengthFrom(_, _, _, _)
PathLengthFrom(line_x, path_height, i, max_idx) ==
  IF i < TRAJECTORY_SIZE /\ line_x[i + 1] < path_height
    THEN PathLengthFrom(line_x, path_height, i + 1, i)
    ELSE max_idx

\* (mutation of get_path_length_idx: the loop goes on past a sample that is
\* not below the bound)
get_path_length_idx_Greatest(line, path_height) ==
  LET below == {i \in 0 .. TRAJECTORY_SIZE - 1 : line.x[i + 1] < path_height}
  IN  IF below = {} THEN 0 ELSE CHOOSE i \in below : \A j \in below : j <= i

get_path_length_idx(line, path_height) == PathLengthFrom(line.x, path_height, 0, 0)

\* (mutation of VertexAdvance: the write position advances on every call)
VertexAdvance_Always(visible) == 1

\* "v += calib_frame_to_full_frame(...)": the bool added to the pointer
VertexAdvance(visible) == IF visible THEN 1 ELSE 0

\* update_line_data's calls in order: samples 0 .. max_idx at y - y_off, then
\* max_idx .. 0 at y + y_off
LineCalls(max_idx) ==
  [k \in 1 .. 2 * (max_idx + 1) |->
     IF k <= max_idx + 1 THEN [i |-> k - 1, side |-> -1]
                         ELSE [i |-> 2 * (max_idx + 1) - k, side |-> 1]]

\* update_line_data from call k on.  acc.v is the buffer, acc.n the offset of
\* the write pointer, acc.top the highest offset written (-1: none), acc.calls
\* the results of the calls made so far.  A write at or past the capacity is
\* outside the array: it is recorded in top and not stored.
RECURSIVE LineDataFrom(_, _, _, _, _, _, _)
LineDataFrom(M, line, y_off, z_off, calls, k, acc) ==
  IF k > Len(calls) THEN acc
  ELSE LET c == calls[k]
           r == calib_frame_to_full_frame(M, line.x[c.i + 1],
                                          line.y[c.i + 1] + c.side * y_off,
                                          line.z[c.i + 1] + z_off)
           vx == [x |-> r.x, y |-> r.y, finite |-> r.finite]
       IN  LineDataFrom(M, line, y_off, z_off, calls, k + 1,
             [v     |-> IF acc.n < VertexCapacity
                          THEN [acc.v EXCEPT ![acc.n + 1] = vx] ELSE acc.v,
              n     |-> acc.n + VertexAdvance(r.visible),
              top   |-> IF acc.n > acc.top THEN acc.n ELSE acc.top,
              calls |-> Append(acc.calls, r)])

\* update_line_data: the buffer and its count, with the record of the calls
update_line_data(M, line, y_off, z_off, pvd, max_idx) ==
  LET acc == LineDataFrom(M, line, y_off, z_off, LineCalls(max_idx), 1,
                          [v |-> pvd.v, n |-> 0, top |-> -1, calls |-> <<>>])
  IN  [v |-> acc.v, cnt |-> acc.n, top |-> acc.top, calls |-> acc.calls,
       max_idx |-> max_idx]

Clamp(v, lo, hi) == IF v < lo THEN lo ELSE IF hi < v THEN hi ELSE v
Min(a, b) == IF a < b THEN a ELSE b

\* (mutation of LeadDrawDistance: the lead's distance is not doubled)
LeadDrawDistance_NotDoubled(lead_x, max_distance) ==
  Clamp(lead_x - Min((lead_x * 35) \div 100, 10000), 0, max_distance)

\* update_model: the draw distance of the path when lead one is there
LeadDrawDistance(lead_x, max_distance) ==
  LET lead_d == lead_x * 2
  IN  Clamp(lead_d - Min((lead_d * 35) \div 100, 10000), 0, max_distance)

\* update_model: the draw distance of the path
PathDrawDistance(model) ==
  LET max_distance == Clamp(model.position.x[TRAJECTORY_SIZE],
                            MIN_DRAW_DISTANCE, MAX_DRAW_DISTANCE)
  IN  IF model.leads[1].prob > 50
        THEN LeadDrawDistance(model.leads[1].x, max_distance)
        ELSE max_distance

\* ----------------------------------------------------------- modelV2 inputs
\* sample distances along a line: the origin, 4.277 m (where one pixel is
\* 2 mm across), 20 m
SampleX == {0, 4277, 20000}
\* lateral offsets of the path: on the axis, far to the left
PathYPatterns == {"straight", "aside", "weaving"}
PathY(pat, k) ==
  CASE pat = "straight" -> 0
    [] pat = "aside"    -> 5120
    [] pat = "weaving"  -> IF k % 2 = 1 THEN 5120 ELSE 0

\* (y, z) of points that, 4.277 m ahead, project to the middle of the
\* framebuffer and to 400, 600 and 1600 pixels outside its edges
EdgePoints ==
  << <<0, 0>>, <<-2720, 0>>, <<-3120, 0>>, <<-5120, 0>>, <<3120, 0>>, <<5120, 0>>,
     <<0, -2280>>, <<0, -4280>>, <<0, 2280>>, <<0, 4280>> >>

LineAt(pt) ==
  [x |-> [k \in 1 .. TRAJECTORY_SIZE |-> 4277],
   y |-> [k \in 1 .. TRAJECTORY_SIZE |-> pt[1]],
   z |-> [k \in 1 .. TRAJECTORY_SIZE |-> pt[2]]]

EdgePoint(n) == EdgePoints[(n % Len(EdgePoints)) + 1]

\* lead one's probability (percent) and distance; lead two is there when
\* lead one is not
LeadsV3 ==
  {[prob |-> 0, x |-> 5000, y |-> 0], [prob |-> 100, x |-> 5000, y |-> 0],
   [prob |-> 100, x |-> 20000, y |-> 0], [prob |-> 100, x |-> 40000, y |-> 0]}

ModelV2s ==
  {[position |-> [x |-> xs,
                  y |-> [k \in 1 .. TRAJECTORY_SIZE |-> PathY(pat, k)],
                  z |-> [k \in 1 .. TRAJECTORY_SIZE |-> 0]],
    lane_lines |-> [i \in 1 .. NumLaneLines |-> LineAt(EdgePoint(c + i))],
    lane_line_probs |-> [i \in 1 .. NumLaneLines |-> 100 * (i % 2)],
    road_edges |-> [i \in 1 .. NumRoadEdges |-> LineAt(EdgePoint(c + NumLaneLines + i))],
    leads |-> <<l, [l EXCEPT !.prob = 100 - l.prob]>>] :
     xs \in [1 .. TRAJECTORY_SIZE -> SampleX], pat \in PathYPatterns,
     c \in 0 .. Len(EdgePoints) - 1, l \in LeadsV3}

\* ----------------------------------------------- update_model, update_leads
\* update_model.  Returns the three groups of buffers with the record of
\* every update_line_data call (lanes, road edges, path, in this order).
update_model(M, model, lanes, edges, track) ==
  LET max_distance == Clamp(model.position.x[TRAJECTORY_SIZE],
                            MIN_DRAW_DISTANCE, MAX_DRAW_DISTANCE)
      lane_idx == get_path_length_idx(model.lane_lines[1], max_distance)
      L == [i \in 1 .. NumLaneLines |->
              update_line_data(M, model.lane_lines[i],
                               (25 * model.lane_line_probs[i]) \div 100, 0,
                               lanes[i], lane_idx)]
      E == [i \in 1 .. NumRoadEdges |->
              update_line_data(M, model.road_edges[i], 25, 0, edges[i], lane_idx)]
      path_distance == PathDrawDistance(model)
      T == update_line_data(M, model.position, 500, 1220, track,
                            get_path_length_idx(model.position, path_distance))
  IN  [lanes |-> L, edges |-> E, track |-> T, max_distance |-> path_distance]

\* update_leads: lead_vertices[i] is written when lead i is there
update_leads(M, model, lv) ==
  [i \in 1 .. 2 |->
     IF model.leads[i].prob > 50
       THEN LET z == model.position.z[get_path_length_idx(model.position,
                                                           model.leads[i].x) + 1]
                r == calib_frame_to_full_frame(M, model.leads[i].x,
                                               model.leads[i].y, z + 1220)
            IN  [x |-> r.x, y |-> r.y, finite |-> r.finite]
       ELSE lv[i]]

Buffer(r) == [v |-> r.v, cnt |-> r.cnt]
CallRecord(r) == [cnt |-> r.cnt, top |-> r.top, calls |-> r.calls, max_idx |-> r.max_idx]

\* update_state, a tick on which modelV2 has updated
RecvModelV2 ==
  /\ model_pc = "pending"
  /\ LET r == update_model(view_from_calib, modelV2, lane_line_vertices,
                           road_edge_vertices, track_vertices)
     IN  /\ lane_line_vertices' = [i \in 1 .. NumLaneLines |-> Buffer(r.lanes[i])]
         /\ road_edge_vertices' = [i \in 1 .. NumRoadEdges |-> Buffer(r.edges[i])]
         /\ track_vertices' = Buffer(r.track)
         /\ obs_model' = [ran |-> TRUE, max_distance |-> r.max_distance,
                          lines |-> [i \in 1 .. NumLaneLines |-> CallRecord(r.lanes[i])]
                                    \o [i \in 1 .. NumRoadEdges |-> CallRecord(r.edges[i])]
                                    \o <<CallRecord(r.track)>>]
  /\ lead_vertices' = update_leads(view_from_calib, modelV2, lead_vertices)
  /\ model_pc' = "done"
  /\ UNCHANGED <<view_from_calib, world_objects_visible, modelV2>>
  /\ UNCHANGED <<timeVars, dimVars, statusVars, fadeVars, feed, pandaVars, visionVars, layoutVars, probeVars>>

\* update_state, a tick on which liveCalibration has updated (rpy = 0)
RecvLiveCalibration ==
  /\ world_objects_visible' = TRUE
  /\ view_from_calib' = ViewFromDevice
  /\ UNCHANGED <<modelV2, model_pc, track_vertices, lane_line_vertices,
                 road_edge_vertices, lead_vertices, obs_model>>
  /\ UNCHANGED <<timeVars, dimVars, statusVars, fadeVars, feed, pandaVars, visionVars, layoutVars, probeVars>>

\* -------------------------------------------------------- pandaState, vision
\* SubMaster::update: the frame counter advances on every call
SubMasterFrame(f) == f + 1
\* SubMaster: a topic's frame of receipt is the frame in which it updated
RcvFrame(updated, f, rcv) == IF updated THEN f ELSE rcv

\* (mutation of PandaTimeout: one second)
PandaTimeout_Short == UI_FREQ

\* update_state: the silence after which the panda type is forgotten
PandaTimeout == 5 * UI_FREQ

\* pandaState as it arrives while the car is off
NoPandaState == [updated |-> FALSE, pandaType |-> "UNKNOWN", ignition |-> FALSE]
PandaStatesOff ==
  {m \in [updated : BOOLEAN, pandaType : PandaTypes, ignition : {FALSE}] :
     ~m.updated => m = NoPandaState}

\* update_state: scene.pandaType
PandaTypeAfter(panda, f, rcv) ==
  IF panda.updated THEN panda.pandaType
  ELSE IF f - rcv > PandaTimeout THEN "UNKNOWN"
  ELSE pandaType

\* QUIState::update restricted to what pandaState writes, with the car off
TickPanda ==
  /\ frame < MaxFrame
  /\ \E panda \in PandaStatesOff :
       /\ frame' = SubMasterFrame(frame)
       /\ pandaState_rcv_frame' = RcvFrame(panda.updated, frame', pandaState_rcv_frame)
       /\ pandaType' = PandaTypeAfter(panda, frame', pandaState_rcv_frame')
       /\ ignition' = PandaIgnition(panda)
       /\ obs_panda' = [ran |-> TRUE, updated |-> panda.updated, pre_type |-> pandaType]
  /\ UNCHANGED <<status, started, started_prev>>
  /\ UNCHANGED <<timeVars, dimVars, fadeVars, feed, modelVars, visionVars, layoutVars, probeVars>>

\* (mutation of DrawWorld: the world is drawn whatever the flag)
DrawWorld_Always(visible) == TRUE

\* ui_draw_vision: "if (scene->world_objects_visible) ui_draw_world(s)"
DrawWorld(visible) == visible

\* (mutation of DisconnectOffroad: going offroad leaves the client alone)
DisconnectOffroad_Never(conn) == conn

\* update_status: leaving onroad disconnects the vision client
DisconnectOffroad(conn) ==
  IF started' # started_prev /\ ~started' THEN FALSE ELSE conn

\* (mutation of VisibleAfterVision: ui_init_vision leaves the flag alone)
VisibleAfterVision_Kept(connected_now, visible) == visible

\* update_vision: ui_init_vision, run when the connect succeeds, hides the
\* world objects; it runs after update_state has handled liveCalibration
VisibleAfterVision(connected_now, visible) == IF connected_now THEN FALSE ELSE visible

\* QUIState::update restricted to calibration, start and vision: update_state
\* (liveCalibration, pandaState, started), update_status, update_vision with
\* ui_init_vision when the client connects
TickVision ==
  \E panda \in PandaStates, devStarted \in BOOLEAN, kind \in CalibKinds,
     connects \in BOOLEAN :
    LET calib    == kind # "none"
        visible1 == IF calib THEN TRUE ELSE world_objects_visible
        conn1    == DisconnectOffroad(vipc_connected)
        connected_now == ~conn1 /\ started' /\ connects
    IN  /\ view_from_calib' = ViewFromCalib(kind, view_from_calib)
        /\ ignition' = PandaIgnition(panda)
        /\ started' = SceneStarted(devStarted, ignition')
        /\ IF started'
             THEN \E cs \in ControlsStates : UpdateStatus(cs)
             ELSE UpdateStatus(NoControlsState)
        /\ vipc_connected' = (conn1 \/ connected_now)
        /\ world_objects_visible' = VisibleAfterVision(connected_now, visible1)
        /\ calib_seen' = (calib_seen \/ calib)
        /\ obs_vision' = [ran |-> TRUE, calib |-> calib,
                          degenerate |-> (kind = "degenerate"),
                          connected_now |-> connected_now,
                          since_connect |->
                            (IF connected_now THEN FALSE
                             ELSE obs_vision.since_connect \/ calib),
                          view_pre |-> view_from_calib,
                          visible_pre |-> world_objects_visible,
                          drawn_vision |-> FALSE, drawn_world |-> FALSE]
        /\ UNCHANGED <<modelV2, model_pc, track_vertices, lane_line_vertices,
                       road_edge_vertices, lead_vertices, obs_model>>
        /\ UNCHANGED <<timeVars, dimVars, fadeVars, feed, pandaVars, layoutVars, probeVars>>

\* --------------------------------------------------------------- hit regions
\* Rect {x, y, w, h} and its members
Rect(x, y, w, h) == [x |-> x, y |-> y, w |-> w, h |-> h]
centerX(r) == r.x + r.w \div 2
centerY(r) == r.y + r.h \div 2
right(r) == r.x + r.w
bottom(r) == r.y + r.h

\* Rect::ptInRect
ptInRect(r, px, py) ==
  px >= r.x /\ px < r.x + r.w /\ py >= r.y /\ py < r.y + r.h

\* the rectangle written for an indicator that cannot be hit: {1,1,1,1}
NoTouchRect == Rect(1, 1, 1, 1)
\* a Rect of ui_state = {0}
ZeroRect == Rect(0, 0, 0, 0)

\* {bdr_s * 2, int(bdr_s * 1.5), 184, 202}
maxspeed_rect == Rect(bdr_s * 2, (bdr_s * 3) \div 2, 184, 202)

AlertSizes == {"NONE", "SMALL", "MID", "FULL"}

\* offset_button_y
offset_button_y(alertSize, center_y, radius) ==
  IF alertSize = "SMALL" THEN (2 * center_y) \div 3 + radius \div 2
  ELSE IF alertSize = "MID" THEN (center_y + radius) \div 2
  ELSE center_y

\* offset_right_side_button_x; slots_rect is scene.measure_slots_rect
offset_right_side_button_x(alertSize, num_slots, slots_rect, center_x) ==
  IF alertSize = "SMALL" /\ num_slots > 0
    THEN slots_rect.x - (right(slots_rect) - center_x) - bdr_s
    ELSE center_x

\* ui_draw_vision_maxspeed: one_pedal_touch_rect
PedalRect ==
  Rect(centerX(maxspeed_rect) - brake_size, centerY(maxspeed_rect) - brake_size,
       brake_size * 2, brake_size * 2)

\* ui_draw_vision_speedlimit: speed_limit_sign_touch_rect
SpeedLimitSignRect ==
  Rect(centerX(maxspeed_rect) - speed_sgn_r - speed_sgn_touch_pad,
       bottom(maxspeed_rect) + bdr_s - speed_sgn_touch_pad,
       2 * speed_sgn_r + 2 * speed_sgn_touch_pad,
       2 * speed_sgn_r + 2 * speed_sgn_touch_pad)

\* ui_draw_vision_event: wheel_touch_rect, radius 88
WheelRect ==
  LET radius   == 88
      center_x == fb_w - radius - bdr_s * 2
      center_y == radius + (bdr_s * 3) \div 2
  IN  Rect(center_x - radius, center_y - radius, 2 * radius, 2 * radius)

\* ui_draw_measures: the geometry of the panel for n = measure_cur_num_slots
MeasureGeometry(n) ==
  LET center_x   == fb_w - face_wheel_radius - bdr_s * 2
      brake_y    == fb_h - footer_h \div 2
      y_min      == bottom(maxspeed_rect) + bdr_s \div 2
      y_max      == brake_y - brake_size - bdr_s \div 2
      y_rng      == y_max - y_min
      slot_y_rng_orig == (y_rng \div measure_max_num_slots) * 2
      slot_y_rng == IF n <= 4 THEN y_rng \div (IF n < 3 THEN 3 ELSE n)
                              ELSE slot_y_rng_orig
      y_mid      == (y_max + y_min) \div 2
      slots_y_rng == slot_y_rng * (IF n <= 5 THEN n ELSE 5)
      slots_y_min == y_mid - slots_y_rng \div 2
      slots_r_orig == brake_size + 6 + 6
      slots_r    == IF n <= 4
                      THEN (brake_size * slot_y_rng) \div slot_y_rng_orig + 12
                      ELSE brake_size + 6 + (IF n <= 5 THEN 6 ELSE 0)
      cx         == IF n <= 4 THEN center_x - (slots_r - slots_r_orig) ELSE center_x
      slots_w    == IF n <= 4 THEN 2 * slots_r
                    ELSE (IF n <= 5 THEN 2 ELSE 4) * slots_r
      slots_x    == IF n <= 5 THEN cx - slots_r ELSE cx - 3 * slots_r
  IN  [rect |-> Rect(slots_x, slots_y_min, slots_w, slots_y_rng),
       slots_r |-> slots_r, slot_y_rng |-> slot_y_rng]

\* ui_draw_measures: measure_slot_touch_rects[i], i from 0
MeasureSlotRect(n, i) ==
  LET g == MeasureGeometry(n)
      slot_x == g.rect.x + (IF n <= 5 THEN 0 ELSE IF i < 5 THEN g.slots_r * 2 ELSE 0)
      slot_y == g.rect.y + (i % 5) * g.slot_y_rng
  IN  Rect(slot_x, slot_y, g.slots_r * 2, g.slot_y_rng)

\* the touch rectangle of the three round buttons, radius 72
ButtonTouchRect(center_x, center_y) ==
  Rect(center_x - laneless_btn_touch_pad, center_y - laneless_btn_touch_pad,
       72 + 2 * laneless_btn_touch_pad, 72 + 2 * laneless_btn_touch_pad)

ButtonCenterY(alertSize) == offset_button_y(alertSize, fb_h - footer_h \div 2 - 72 \div 2, 72)

\* draw_accel_mode_button: accel_mode_touch_rect
AccelModeRect(alertSize, num_slots, slots_rect, brake) ==
  LET c0 == fb_w - face_wheel_radius - bdr_s * 2
      c1 == IF brake >= 0 THEN c0 - (brake_size + 3 * bdr_s + 72) ELSE c0
  IN  ButtonTouchRect(offset_right_side_button_x(alertSize, num_slots, slots_rect, c1),
                      ButtonCenterY(alertSize))

\* draw_dynamic_follow_mode_button: the shift to the left of the accel button
FollowModeShift == 2 * (bdr_s + 72)

\* draw_dynamic_follow_mode_button: dynamic_follow_mode_touch_rect
FollowModeRect(alertSize, num_slots, slots_rect, brake, accel_enabled) ==
  LET c0 == fb_w - face_wheel_radius - bdr_s * 2
      c1 == IF brake >= 0 THEN c0 - (brake_size + 3 * bdr_s + 72) ELSE c0
      c2 == IF accel_enabled THEN c1 - FollowModeShift ELSE c1
  IN  ButtonTouchRect(offset_right_side_button_x(alertSize, num_slots, slots_rect, c2),
                      ButtonCenterY(alertSize))

\* draw_laneless_button: laneless_btn_touch_rect
LanelessRect(alertSize) ==
  ButtonTouchRect(centerX(maxspeed_rect) + 96 + bdr_s + 72, ButtonCenterY(alertSize))

\* update_state: screen_dim_touch_rect while onroad, radius 96
ScreenDimRect(mode) ==
  LET k        == 1 + screen_dim_mode_max - mode
      center_x == centerX(maxspeed_rect)
      center_y == fb_h - footer_h \div 2
  IN  Rect(center_x - k * 96, center_y - k * 96, 2 * k * 96, 2 * k * 96)


\* ------------------------------------------------------ layout, inputs, tick
\* Which inputs of the layout vary in a behaviour: the header's (engageable,
\* speed limit, turn controller), the panel's (alert size, buttons, measure
\* slots) or the dim button's (ScreenDimMode).
LayoutFeeds == {"header", "panel", "dim"}

\* the controlsState fields the layout reads; the default Reader first
NoControlsLayout == [updated |-> FALSE, alertSize |-> "NONE", engageable |-> FALSE]
ControlsStatesLayout ==
  {NoControlsLayout} \cup
  (IF feed = "header" THEN [updated : {TRUE}, alertSize : {"NONE"}, engageable : BOOLEAN]
   ELSE IF feed = "panel" THEN [updated : {TRUE}, alertSize : AlertSizes, engageable : {FALSE}]
   ELSE {})

\* the longitudinalPlan fields the layout reads: speedLimit (m/s) and
\* visionTurnControllerState (0 is DISABLED)
NoLongPlanLayout == [updated |-> FALSE, speedLimit |-> 0, tcs |-> 0]
LongPlansLayout ==
  {NoLongPlanLayout} \cup
  (IF feed = "header" THEN [updated : {TRUE}, speedLimit : {0, 25}, tcs : {0, 1}] ELSE {})

\* measure_cur_num_slots as MeasureNumSlots can give it
SlotCounts == {0, 3, 4, 5, 10}

\* the params read when a session starts: EndToEndToggle, AccelModeButton,
\* DynamicFollowToggle, MeasureNumSlots, ShowDebugUI
NoSessionParams ==
  [end_to_end |-> FALSE, accel |-> FALSE, follow |-> FALSE, slots |-> 3, debug |-> FALSE]
SessionParams ==
  IF feed = "panel"
    THEN [end_to_end : BOOLEAN, accel : BOOLEAN, follow : BOOLEAN, slots : SlotCounts,
          debug : {FALSE}]
  ELSE IF feed = "header"
    THEN [end_to_end : {FALSE}, accel : {FALSE}, follow : {FALSE}, slots : {3},
          debug : BOOLEAN]
  ELSE {NoSessionParams}

\* the param ScreenDimMode
ParamsScreenDimMode == IF feed = "dim" THEN 0 .. screen_dim_mode_max ELSE {screen_dim_mode_max}

\* what a message leaves in the SubMaster: the latest one
Latest(msg, held) == IF msg.updated THEN msg ELSE held

\* update_status: the resets of a session's start
SessionRects(r, p) ==
  [r EXCEPT
     !.laneless_btn_touch_rect = IF ~p.end_to_end THEN NoTouchRect ELSE @,
     !.accel_mode_touch_rect = IF ~p.accel THEN NoTouchRect ELSE @,
     !.dynamic_follow_mode_touch_rect = IF ~p.follow THEN NoTouchRect ELSE @]

\* QUIState::update restricted to the state the layout reads and writes.
\* twoHz: this is a tick with frame % (UI_FREQ / 2) = 0; due: the params
\* poll is due.
TickLayout ==
  \E panda \in PandaStates, devStarted \in BOOLEAN,
     cs \in ControlsStatesLayout, lp \in LongPlansLayout, twoHz \in BOOLEAN,
     pMode \in ParamsScreenDimMode :
    LET conn1 == DisconnectOffroad(vipc_connected)
        r1 == [rects EXCEPT !.screen_dim_touch_rect =
                 IF started THEN ScreenDimRect(screen_dim_mode') ELSE NoTouchRect]
    IN  /\ screen_dim_mode' = pMode
        /\ sm_controlsState' = Latest(cs, sm_controlsState)
        /\ sm_longitudinalPlan' = Latest(lp, sm_longitudinalPlan)
        /\ engageable' = IF twoHz THEN sm_controlsState'.engageable ELSE engageable
        /\ ignition' = PandaIgnition(panda)
        /\ started' = SceneStarted(devStarted, ignition')
        /\ UpdateStatus([updated |-> cs.updated, alert |-> "NORMAL",
                         enabled |-> FALSE, vCruise |-> 0])
        /\ IF SessionStarts
             THEN /\ end_to_end' = session_params.end_to_end
                  /\ accel_mode_button_enabled' = session_params.accel
                  /\ dynamic_follow_mode_button_enabled' = session_params.follow
                  /\ measure_cur_num_slots' = session_params.slots
                  /\ show_debug_ui' = session_params.debug
                  /\ rects' = SessionRects(r1, session_params)
             ELSE /\ UNCHANGED <<end_to_end, accel_mode_button_enabled,
                                 dynamic_follow_mode_button_enabled,
                                 measure_cur_num_slots, show_debug_ui>>
                  /\ rects' = r1
        /\ IF ~conn1 /\ started'
             THEN vipc_connected' \in BOOLEAN
             ELSE vipc_connected' = conn1
        /\ obs_layout' = [paints |-> 0, prev |-> rects', fade |-> one_pedal_fade]
        /\ UNCHANGED <<screen_dim_mode_cur, screen_dim_mode_last, screen_dim_fade,
                       screen_dim_fade_last_t, screen_dim_fade_step, obs_dim>>
        /\ UNCHANGED <<calib_seen, obs_vision, session_params, probeVars>>
        /\ UNCHANGED <<timeVars, fadeVars, feed, modelVars, pandaVars>>

\* ui_draw_vision_maxspeed: the icon's hit region while the fade is above 0
OnePedalTouchRect(fade) == IF fade > 0 THEN PedalRect ELSE NoTouchRect

\* (mutation of MaxspeedTouchRect: the box keeps its hit region under the
\* icon)
MaxspeedTouchRect_Always(fade) == maxspeed_rect

\* ui_draw_vision_maxspeed: the box's hit region otherwise
MaxspeedTouchRect(fade) == IF fade > 0 THEN NoTouchRect ELSE maxspeed_rect

\* (mutation of SlotsRectForButtons: the buttons are laid out before the
\* measures panel)
SlotsRectForButtons_Stale(before, after) == before

\* ui_draw_vision: the buttons are drawn after ui_draw_measures and read the
\* measure_slots_rect it has just written
SlotsRectForButtons(before, after) == after

\* ui_draw_vision_header and the rest of ui_draw_vision: the hit regions
ui_draw_vision(r) ==
  LET alertSize == sm_controlsState.alertSize
      n == measure_cur_num_slots
      header ==
        [r EXCEPT
           !.one_pedal_touch_rect = OnePedalTouchRect(one_pedal_fade),
           !.maxspeed_touch_rect = MaxspeedTouchRect(one_pedal_fade),
           !.speed_limit_sign_touch_rect =
              IF sm_longitudinalPlan.speedLimit > 0 /\ engageable
                THEN SpeedLimitSignRect ELSE @,
           !.wheel_touch_rect =
              IF show_debug_ui /\ sm_longitudinalPlan.tcs > 0 /\ engageable THEN NoTouchRect
              ELSE IF engageable THEN WheelRect ELSE NoTouchRect]
      measures ==
        IF alertSize \in {"NONE", "SMALL"} /\ n # 0
          THEN [header EXCEPT
                  !.measure_slots_rect = MeasureGeometry(n).rect,
                  !.measure_slot_touch_rects =
                     [i \in 1 .. measure_max_num_slots |->
                        IF i <= n THEN MeasureSlotRect(n, i - 1) ELSE @[i]]]
          ELSE header
      slots_rect == SlotsRectForButtons(r.measure_slots_rect, measures.measure_slots_rect)
  IN  [measures EXCEPT
         !.laneless_btn_touch_rect =
            IF end_to_end /\ vipc_connected THEN LanelessRect(alertSize) ELSE @,
         !.accel_mode_touch_rect =
            IF accel_mode_button_enabled /\ vipc_connected
              THEN AccelModeRect(alertSize, n, slots_rect, brake_percent) ELSE @,
         !.dynamic_follow_mode_touch_rect =
            IF dynamic_follow_mode_button_enabled /\ vipc_connected
              THEN FollowModeRect(alertSize, n, slots_rect, brake_percent,
                                  accel_mode_button_enabled) ELSE @]


\* ui_draw, between two ticks
Paint ==
  LET draw_vision == started /\ vipc_connected
  IN  /\ obs_vision' = [obs_vision EXCEPT
                          !.drawn_vision = draw_vision,
                          !.drawn_world = draw_vision /\ DrawWorld(world_objects_visible)]
      /\ rects' = IF draw_vision THEN ui_draw_vision(rects) ELSE rects
      /\ obs_layout' = [paints |-> IF obs_layout.paints < 2 THEN obs_layout.paints + 1 ELSE 2,
                        prev |-> rects, fade |-> one_pedal_fade]
      /\ UNCHANGED <<sm_controlsState, sm_longitudinalPlan, engageable, show_debug_ui,
                     end_to_end, accel_mode_button_enabled,
                     dynamic_follow_mode_button_enabled, measure_cur_num_slots,
                     session_params, probeVars>>
      /\ UNCHANGED <<vipc_connected, calib_seen>>
      /\ UNCHANGED <<timeVars, dimVars, statusVars, fadeVars, feed, modelVars, pandaVars>>

\* ui_draw_vision_maxspeed, called on its own
DrawMaxspeed ==
  /\ rects' = [rects EXCEPT
                 !.one_pedal_touch_rect = OnePedalTouchRect(one_pedal_fade),
                 !.maxspeed_touch_rect = MaxspeedTouchRect(one_pedal_fade)]
  /\ obs_layout' = [paints |-> 1, prev |-> rects, fade |-> one_pedal_fade]
  /\ UNCHANGED <<sm_controlsState, sm_longitudinalPlan, engageable, show_debug_ui,
                 end_to_end, accel_mode_button_enabled,
                 dynamic_follow_mode_button_enabled, measure_cur_num_slots,
                 session_params>>
  /\ UNCHANGED <<timeVars, dimVars, statusVars, fadeVars, feed, modelVars, pandaVars,
                 visionVars, probeVars>>

\* ---------------------------------------------------------------- hit test
\* the scene's hit regions by name; measure_slots_rect is the panel's frame,
\* not a hit region
TouchRectNames ==
  {"one_pedal_touch_rect", "maxspeed_touch_rect", "speed_limit_sign_touch_rect",
   "wheel_touch_rect", "laneless_btn_touch_rect", "accel_mode_touch_rect",
   "dynamic_follow_mode_touch_rect", "screen_dim_touch_rect"}
TouchRects ==
  {[name |-> n, rect |-> rects[n]] : n \in TouchRectNames}
  \cup {[name |-> "measure_slot_touch_rects", rect |-> rects.measure_slot_touch_rects[i]] :
          i \in 1 .. measure_max_num_slots}

\* where a finger comes down: the corner pixels, the max-speed box, the
\* bottom row of buttons
TouchPoints == {<<0, 0>>, <<1, 1>>, <<2, 2>>, <<152, 146>>, <<1450, 900>>}

\* a touch: Rect::ptInRect applied to every hit region of the scene
Touch ==
  /\ \E pt \in TouchPoints :
       obs_touch' = [ran |-> TRUE, px |-> pt[1], py |-> pt[2],
                     hits |-> {h \in TouchRects : ptInRect(h.rect, pt[1], pt[2])}]
  /\ UNCHANGED <<timeVars, dimVars, statusVars, fadeVars, feed, modelVars, pandaVars,
                 visionVars, layoutVars, obs_lookup, measureVars, extraVars>>


\* ------------------------------------------------------------ lookup tables
\* screen_dim_modes_v has 3 entries, bg_colors and tcs_colors 4 each
TableSize(site) == IF site = "screen_dim_modes_v" THEN screen_dim_mode_max + 1 ELSE 4

\* T[i] on a plain array, written without a test of i: inside the table it
\* reads the entry; outside, the behaviour is undefined, and the build either
\* faults or reads whatever lies beside the table and goes on
IndexOutcomes(i, size) ==
  IF i \in 0 .. size - 1 THEN {"read"} ELSE {"fault", "read_outside"}

\* what the param ScreenDimMode, carState.onePedalBrakeMode and
\* longitudinalPlan.visionTurnControllerState can hold
DimModeParams == -2 .. screen_dim_mode_max + 2
OnePedalBrakeModes == -2 .. 3
TurnControllerStates == 0 .. 5
Statuses == {"STATUS_DISENGAGED", "STATUS_ENGAGED", "STATUS_WARNING", "STATUS_ALERT"}

Lookup(site, inputs, i) ==
  \E o \in IndexOutcomes(i, TableSize(site)) :
    obs_lookup' = [site |-> site, inputs |-> inputs, index |-> i,
                   size |-> TableSize(site), outcome |-> o]
LookupFrame ==
  UNCHANGED <<timeVars, dimVars, statusVars, fadeVars, feed, modelVars, pandaVars,
              visionVars, layoutVars, obs_touch, measureVars, extraVars>>

\* update_state, the params poll and the dimming section: ScreenDimMode goes
\* from std::stoi to screen_dim_mode_cur and indexes screen_dim_modes_v
ReadScreenDimModes ==
  /\ \E mode \in DimModeParams, on \in BOOLEAN, st \in Statuses :
       Lookup("screen_dim_modes_v", <<mode, on, st>>,
              IF on THEN DimModeCur(st, mode) ELSE screen_dim_mode_max)
  /\ LookupFrame

\* ui_draw_vision_maxspeed, the one-pedal icon's colour
ReadBgColors ==
  /\ \E mode \in OnePedalBrakeModes, active \in BOOLEAN, st \in Statuses :
       IF st = "STATUS_DISENGAGED" THEN Lookup("bg_colors", <<mode, active, st>>, 0)
       ELSE /\ active
            /\ Lookup("bg_colors", <<mode, active, st>>, mode + 1)
  /\ LookupFrame

\* ui_draw_vision_event, the turn controller's colour
ReadTcsColors ==
  /\ \E tcs \in TurnControllerStates, debug \in BOOLEAN, eng \in BOOLEAN :
       /\ debug /\ tcs > 0 /\ eng
       /\ Lookup("tcs_colors", <<tcs, debug, eng>>, tcs)
  /\ LookupFrame


\* ------------------------------------------------------- the LEAD_TTC measure
\* radarState.leadOne as the scene keeps it: status, dRel in millimetres,
\* vRel in millimetres per second (negative while closing in)
LeadDRels == {0, 500, 5000, 30000, 99000, 99001, 150000}
LeadVRels == {-20000, -1000, -1, 0, 1, 3000}

\* n / d > k and n / d >= k for d # 0, without dividing
QuotientAbove(n, d, k) == IF d > 0 THEN n > k * d ELSE n < k * d
QuotientAtLeast(n, d, k) == IF d > 0 THEN n >= k * d ELSE n <= k * d

\* (mutation of TtcGuard: a lead that keeps its distance is divided by too)
TtcGuard_NotOpening(st, v_rel) == st /\ v_rel <= 0

\* ui_draw_measures, LEAD_TTC: "if (scene.lead_status && scene.lead_v_rel < 0.)"
TtcGuard(st, v_rel) == st /\ v_rel < 0

\* ui_draw_measures, LEAD_TTC: what snprintf writes for ttc = -d_rel / v_rel,
\* named by its format
TtcVal(d_rel, v_rel) ==
  IF QuotientAbove(-d_rel, v_rel, 99) THEN "99+"
  ELSE IF QuotientAtLeast(-d_rel, v_rel, 10) THEN "%.0f"
  ELSE "%.1f"

\* no LEAD_TTC slot drawn since the last radarState
NoMeasure == [drawn |-> FALSE, divided |-> FALSE, val |-> "-"]

\* update_state on a tick with a radarState message
RecvRadarState ==
  /\ \E st \in BOOLEAN, d \in LeadDRels, v \in LeadVRels :
       lead_status' = st /\ lead_d_rel' = d /\ lead_v_rel' = v
  /\ obs_measure' = NoMeasure
  /\ UNCHANGED <<timeVars, dimVars, statusVars, fadeVars, feed, modelVars, pandaVars,
                 visionVars, layoutVars, obs_touch, obs_lookup, extraVars>>

\* ui_draw_measures drawing the LEAD_TTC slot
DrawLeadTtc ==
  /\ obs_measure' =
       IF TtcGuard(lead_status, lead_v_rel)
         THEN [drawn |-> TRUE, divided |-> TRUE, val |-> TtcVal(lead_d_rel, lead_v_rel)]
         ELSE [drawn |-> TRUE, divided |-> FALSE, val |-> "-"]
  /\ UNCHANGED <<lead_status, lead_d_rel, lead_v_rel>>
  /\ UNCHANGED <<timeVars, dimVars, statusVars, fadeVars, feed, modelVars, pandaVars,
                 visionVars, layoutVars, obs_touch, obs_lookup, extraVars>>


\* ------------------------------------------------------------ status tick
NoStatusObs ==
  [ran |-> FALSE, cs |-> NoControlsState, started_pre |-> FALSE,
   status_pre |-> "STATUS_DISENGAGED"]

\* QUIState::update restricted to started and the status: update_state
\* (pandaState, deviceState), update_status
TickStatus ==
  /\ \E panda \in PandaStates, devStarted \in BOOLEAN, cs \in ControlsStates :
       /\ ignition' = PandaIgnition(panda)
       /\ started' = SceneStarted(devStarted, ignition')
       /\ UpdateStatus(cs)
       /\ obs_status' = [ran |-> TRUE, cs |-> cs, started_pre |-> started_prev,
                         status_pre |-> status]
  /\ UNCHANGED <<timeVars, dimVars, fadeVars, feed, modelVars, pandaVars, visionVars,
                 layoutVars, obs_touch, obs_lookup, measureVars>>
  /\ UNCHANGED <<qui, clients, device, grade>>

\* ------------------------------------------------------- QUIState::update
\* QUIState: started_prev = true; the constructor's timer->start(0); nothing
\* emitted yet
InitQUIState ==
  [started_prev |-> TRUE, interval |-> 0, ran |-> FALSE, emitted |-> FALSE,
   arg |-> FALSE, steps |-> <<>>, last |-> [some |-> FALSE, val |-> FALSE]]

\* (mutation of EmitsTransition: the first frame is not singled out)
EmitsTransition_NoFirstFrame(st, prev, f) == st # prev

\* QUIState::update: "started != started_prev || sm->frame == 1"
EmitsTransition(st, prev, f) == st # prev \/ f = 1

\* the timer's interval in milliseconds
TimerInterval(st) == IF st THEN 0 ELSE 1000 \div UI_FREQ

\* QUIState::update: its calls and emissions in order
UpdateSteps(emit) ==
  <<"update_params", "update_sockets", "update_state", "update_status", "update_vision">>
  \o (IF emit THEN <<"offroadTransition", "timer_start">> ELSE <<>>)
  \o <<"watchdog_kick", "uiUpdate">>

\* QUIState::update restricted to started and the signals
TickQUI ==
  /\ frame < MaxFrame
  /\ \E panda \in PandaStates, devStarted \in BOOLEAN :
       /\ frame' = SubMasterFrame(frame)
       /\ ignition' = PandaIgnition(panda)
       /\ started' = SceneStarted(devStarted, ignition')
       /\ UpdateStatus(NoControlsState)
       /\ LET emit == EmitsTransition(started', qui.started_prev, frame')
          IN  qui' = [started_prev |-> IF emit THEN started' ELSE qui.started_prev,
                      interval |-> IF emit THEN TimerInterval(started') ELSE qui.interval,
                      ran |-> TRUE, emitted |-> emit, arg |-> ~started',
                      steps |-> UpdateSteps(emit),
                      last |-> IF qui.emitted THEN [some |-> TRUE, val |-> ~qui.arg]
                               ELSE qui.last]
  /\ UNCHANGED <<pandaState_rcv_frame, pandaType, obs_panda>>
  /\ UNCHANGED <<timeVars, dimVars, fadeVars, feed, modelVars, visionVars, layoutVars,
                 obs_touch, obs_lookup, measureVars>>
  /\ UNCHANGED <<obs_status, clients, device, grade>>

\* ------------------------------------------------------ vision clients
\* QUIState::QUIState: two clients, neither connected, the rear one in use
InitClients ==
  [rear |-> FALSE, wide |-> FALSE, active |-> "rear", ran |-> FALSE,
   was_connected |-> FALSE]

\* update_status: "Choose vision ipc client" when a session starts
ChooseClient(wide_camera, active) ==
  IF SessionStarts THEN (IF wide_camera THEN "wide" ELSE "rear") ELSE active

\* QUIState::update restricted to started and the vision clients:
\* update_state, update_status (the client is chosen, or the one in use
\* disconnected), update_vision (connect, ui_init_vision)
TickClients ==
  /\ \E panda \in PandaStates, devStarted \in BOOLEAN, wide_camera \in BOOLEAN,
        connects \in BOOLEAN, kind \in {"none", "valid"} :
       /\ ignition' = PandaIgnition(panda)
       /\ started' = SceneStarted(devStarted, ignition')
       /\ UpdateStatus(NoControlsState)
       /\ LET active1 == ChooseClient(wide_camera, clients.active)
              c1 == [clients EXCEPT ![clients.active] = DisconnectOffroad(@)]
              connected_now == ~c1[active1] /\ started' /\ connects
          IN  /\ clients' = [c1 EXCEPT !.active = active1,
                                       ![active1] = @ \/ connected_now,
                                       !.ran = TRUE,
                                       !.was_connected = clients[clients.active]]
              /\ vipc_connected' = clients'[active1]
              /\ view_from_calib' = ViewFromCalib(kind, view_from_calib)
              /\ world_objects_visible' =
                   VisibleAfterVision(connected_now,
                                      kind # "none" \/ world_objects_visible)
              /\ calib_seen' = (calib_seen \/ kind # "none")
              /\ obs_vision' = [obs_vision EXCEPT
                                  !.ran = TRUE, !.calib = (kind # "none"),
                                  !.degenerate = FALSE,
                                  !.connected_now = connected_now,
                                  !.since_connect =
                                     IF connected_now THEN FALSE ELSE @ \/ kind # "none",
                                  !.view_pre = view_from_calib,
                                  !.visible_pre = world_objects_visible,
                                  !.drawn_vision = FALSE, !.drawn_world = FALSE]
  /\ UNCHANGED <<modelV2, model_pc, track_vertices, lane_line_vertices,
                 road_edge_vertices, lead_vertices, obs_model>>
  /\ UNCHANGED <<timeVars, dimVars, fadeVars, feed, pandaVars, layoutVars,
                 obs_touch, obs_lookup, measureVars>>
  /\ UNCHANGED <<obs_status, qui, device, grade>>

\* ------------------------------------------------------------------ Device
\* "30 * UI_FREQ" calls of Device::update
AwakePeriod == 30 * UI_FREQ

NoSignal == [some |-> FALSE, val |-> FALSE]
\* the backlight before any writer of this program has set it
NoBrightness == -1
\* writer threads that may be running at once
MaxWriters == 2
\* what brightness_filter.update returns, in percent (the filter starts at
\* BACKLIGHT_OFFROAD and moves towards the clipped light sensor value)
BACKLIGHT_OFFROAD == 75
FilterOutputs == {10, BACKLIGHT_OFFROAD, 100}
\* Device::Device: awake_timeout = 0, last_brightness = 0; awake has no
\* initializer (awake_init: it has been written).  History: since counts
\* the calls of update after the last one with a wake condition (-1 before
\* the first); on, reset, awake_pre and timeout_pre are the last setAwake
\* call's arguments and what it found; power is displayPowerChanged as that
\* call emitted it, power_last the latest emission before that call.
InitDevice ==
  [awake |-> FALSE, awake_init |-> FALSE, awake_timeout |-> 0,
   ran |-> FALSE, since |-> -1, on |-> FALSE, reset |-> FALSE,
   awake_pre |-> FALSE, timeout_pre |-> 0,
   power |-> NoSignal, power_last |-> NoSignal,
   last_brightness |-> 0, writers |-> <<>>, hw |-> NoBrightness,
   launched |-> FALSE, computed |-> 0, last_pre |-> 0, wrote |-> FALSE]

\* what a read of awake can give: anything before the first write
AwakeRead == IF device.awake_init THEN {device.awake} ELSE BOOLEAN

\* (mutation of SetAwakePower: the display power is set on every call)
SetAwakePower_Always(cur, on) == [some |-> TRUE, val |-> on]

\* Device::setAwake: set_display_power and displayPowerChanged, "if (on != awake)"
SetAwakePower(cur, on) == IF on # cur THEN [some |-> TRUE, val |-> on] ELSE NoSignal

\* Device::setAwake(on, reset) on a device d whose awake reads cur
setAwake(d, cur, on, reset) ==
  LET sig == SetAwakePower(cur, on)
  IN  [d EXCEPT !.awake = IF on # cur THEN on ELSE cur,
                !.awake_init = TRUE,
                !.awake_timeout = IF reset THEN AwakePeriod ELSE @,
                !.on = on, !.reset = reset,
                !.awake_pre = cur, !.timeout_pre = d.awake_timeout,
                !.power = sig,
                !.power_last = IF d.power.some THEN d.power ELSE @]

\* (mutation of AwakeTimeoutStep: the countdown has no floor)
AwakeTimeoutStep_NoFloor(n) == n - 1

\* Device::updateWakefulness: "std::max(awake_timeout - 1, 0)"
AwakeTimeoutStep(n) == IF n - 1 > 0 THEN n - 1 ELSE 0

\* Device::updateWakefulness: started, ignition, or both tap triggers
ShouldWake(s_started, s_ignition, accel_trigger, gyro_trigger) ==
  s_started \/ s_ignition \/ (accel_trigger /\ gyro_trigger)

\* Device::update as far as the display power goes: updateWakefulness
UpdateWakefulness ==
  /\ \E s_started \in BOOLEAN, s_ignition \in BOOLEAN, accel_trigger \in BOOLEAN,
        gyro_trigger \in BOOLEAN, cur \in AwakeRead :
       LET should_wake == ShouldWake(s_started, s_ignition, accel_trigger, gyro_trigger)
           n  == AwakeTimeoutStep(device.awake_timeout)
           d1 == [device EXCEPT !.awake_timeout = n]
           d2 == setAwake(d1, cur, n # 0, should_wake)
       IN  device' = [d2 EXCEPT
                        !.ran = TRUE,
                        !.since = IF should_wake THEN 0
                                  ELSE IF @ < 0 THEN @
                                  ELSE IF @ > AwakePeriod THEN @
                                  ELSE @ + 1]
  /\ UNCHANGED <<timeVars, dimVars, statusVars, fadeVars, feed, modelVars, pandaVars,
                 visionVars, layoutVars, obs_touch, obs_lookup, measureVars>>
  /\ UNCHANGED <<obs_status, qui, clients, grade>>

\* "int(float(brightness) * screen_dim_fade)": truncation towards zero
TruncScale(b, fade) ==
  IF b * fade >= 0 THEN (b * fade) \div 2000 ELSE -((-(b * fade)) \div 2000)

\* Device::updateBrightness: the brightness computed from the filter output
Brightness(filtered, awake, s_started, fade) ==
  IF ~awake THEN 0
  ELSE IF s_started /\ fade < 2000 THEN Clamp(TruncScale(filtered, fade), 1, 100)
  ELSE filtered

\* Device::updateBrightness: "if (brightness != last_brightness)"
StartsWrite(brightness, last) == brightness # last

\* Device::update as far as the backlight goes: updateBrightness.  A write
\* is a detached thread running Hardware::set_brightness(brightness).
UpdateBrightness ==
  /\ Len(device.writers) < MaxWriters
  /\ \E filtered \in FilterOutputs, s_started \in BOOLEAN, cur \in AwakeRead :
       LET brightness == Brightness(filtered, cur, s_started, screen_dim_fade)
           starts == StartsWrite(brightness, device.last_brightness)
       IN  device' = [device EXCEPT
                        !.writers = IF starts THEN Append(@, brightness) ELSE @,
                        !.launched = @ \/ starts,
                        !.wrote = starts,
                        !.computed = brightness,
                        !.last_pre = device.last_brightness,
                        !.last_brightness = brightness]
  /\ UNCHANGED <<timeVars, dimVars, statusVars, fadeVars, feed, modelVars, pandaVars,
                 visionVars, layoutVars, obs_touch, obs_lookup, measureVars>>
  /\ UNCHANGED <<obs_status, qui, clients, grade>>

\* one detached writer thread runs Hardware::set_brightness and ends; the
\* threads are not ordered among themselves
WriterApplies ==
  /\ \E i \in 1 .. Len(device.writers) :
       device' = [device EXCEPT
                    !.hw = device.writers[i],
                    !.writers = [j \in 1 .. Len(@) - 1 |->
                                   IF j < i THEN @[j] ELSE @[j + 1]]]
  /\ UNCHANGED <<timeVars, dimVars, statusVars, fadeVars, feed, modelVars, pandaVars,
                 visionVars, layoutVars, obs_touch, obs_lookup, measureVars>>
  /\ UNCHANGED <<obs_status, qui, clients, grade>>

\* the slot Device::setAwake called from outside Device::update
CallSetAwake ==
  /\ \E on \in BOOLEAN, reset \in BOOLEAN, cur \in AwakeRead :
       device' = [setAwake(device, cur, on, reset) EXCEPT
                    !.ran = TRUE,
                    !.since = IF reset THEN -1 ELSE @]
  /\ UNCHANGED <<timeVars, dimVars, statusVars, fadeVars, feed, modelVars, pandaVars,
                 visionVars, layoutVars, obs_touch, obs_lookup, measureVars>>
  /\ UNCHANGED <<obs_status, qui, clients, grade>>

\* ------------------------------------------------------------ percent grade
\* Lengths and altitudes are counted in 0.1 m, speeds in m/s, the time
\* between two carState messages in 0.1 s, grades in 1/100 percent.
percentGradeNumSamples == 10
percentGradeLenStep == 50
\* entries the session start clears: "for (int i = 0; i < 5; ++i)"
GradeResetCount == 5
\* samples recorded in one behaviour
MaxSamples == 11
VEgos == {0, 30}
CarStateElapsed == 2
Altitudes == {0, 6}
GradeIdx == 1 .. percentGradeNumSamples
Zeros == [i \in GradeIdx |-> 0]

\* UIScene: the arrays come zeroed with ui_state = {0}.  History: samples
\* counts the recorded samples, reset tells that the last tick started a
\* session
InitGrade ==
  [alts |-> Zeros, pos |-> Zeros, grades |-> Zeros, percentGrade |-> 0,
   iter |-> 0, rolled |-> FALSE, curDist |-> 0, samples |-> 0, reset |-> FALSE]

TruncDiv(a, b) ==
  IF (a >= 0) = (b > 0) THEN (IF a >= 0 THEN a \div b ELSE (-a) \div (-b))
  ELSE -(IF a >= 0 THEN a \div (-b) ELSE (-a) \div b)

\* "rise/run * 100." between entry i and the one after it (0-based i)
GradeAt(alts, pos, i) ==
  LET nxt  == ((i + 1) % percentGradeNumSamples) + 1
      rise == alts[i + 1] - alts[nxt]
      run  == pos[i + 1] - pos[nxt]
  IN  [some |-> run # 0, val |-> IF run # 0 THEN TruncDiv(rise * 10000, run) ELSE 0]

RECURSIVE SumSeq(_, _)
SumSeq(f, n) == IF n = 0 THEN 0 ELSE f[n] + SumSeq(f, n - 1)

\* (mutation of RollIter: the index is not wrapped)
RollIter_NoWrap(i) == i

\* "if (percentGradeRollingIter >= percentGradeNumSamples) ... = 0"
RollIter(i) == IF i >= percentGradeNumSamples THEN 0 ELSE i

\* update_state, carState: one sample at altitude alt once the car has gone
\* further than percentGradeLenStep
GradeSample(g, alt, vEgo, elapsed) ==
  IF vEgo <= 0 THEN g
  ELSE
    LET dist == g.curDist + vEgo * elapsed
    IN  IF dist <= percentGradeLenStep THEN [g EXCEPT !.curDist = dist]
        ELSE
          LET prevDist == g.pos[g.iter + 1]
              it1      == g.iter + 1
              rolls    == it1 >= percentGradeNumSamples /\ ~g.rolled
              first    == [i \in GradeIdx |-> GradeAt(g.alts, g.pos, i - 1)]
              grades1  == IF rolls
                          THEN [i \in GradeIdx |->
                                  IF first[i].some THEN first[i].val ELSE g.grades[i]]
                          ELSE g.grades
              mean1    == IF rolls
                          THEN TruncDiv(SumSeq([i \in GradeIdx |-> first[i].val],
                                               percentGradeNumSamples),
                                        percentGradeNumSamples)
                          ELSE g.percentGrade
              rolled1  == g.rolled \/ it1 >= percentGradeNumSamples
              it2      == RollIter(it1)
              alts2    == [g.alts EXCEPT ![it2 + 1] = alt]
              pos2     == [g.pos EXCEPT ![it2 + 1] = prevDist + dist]
              new      == GradeAt(alts2, pos2, it2)
              moves    == rolled1 /\ new.some
          IN  [g EXCEPT
                 !.iter = it2, !.rolled = rolled1, !.alts = alts2, !.pos = pos2,
                 !.percentGrade =
                   IF moves
                   THEN mean1 - TruncDiv(grades1[it2 + 1], percentGradeNumSamples)
                              + TruncDiv(new.val, percentGradeNumSamples)
                   ELSE mean1,
                 !.grades = IF moves THEN [grades1 EXCEPT ![it2 + 1] = new.val]
                            ELSE grades1,
                 !.curDist = 0, !.samples = @ + 1]

\* (mutation of GradeCleared: nothing is cleared)
GradeCleared_Nothing(f) == f

\* update_status, session start: the first GradeResetCount entries go to 0
GradeCleared(f) == [i \in GradeIdx |-> IF i <= GradeResetCount THEN 0 ELSE f[i]]

\* update_status, session start
GradeReset(g) ==
  [g EXCEPT !.percentGrade = 0, !.alts = GradeCleared(@), !.pos = GradeCleared(@),
            !.grades = GradeCleared(@), !.rolled = FALSE, !.iter = 0]

\* one tick as far as the percent grade goes: update_state with or without a
\* carState message, then update_status
TickGrade ==
  /\ \E panda \in PandaStates, devStarted \in BOOLEAN, updated \in BOOLEAN,
        vEgo \in VEgos, alt \in Altitudes :
       /\ updated => grade.samples < MaxSamples
       /\ ignition' = PandaIgnition(panda)
       /\ started' = SceneStarted(devStarted, ignition')
       /\ UpdateStatus(NoControlsState)
       /\ LET g1 == IF updated THEN GradeSample(grade, alt, vEgo, CarStateElapsed)
                    ELSE grade
              begins == started' /\ ~started_prev
          IN  grade' = [(IF begins THEN GradeReset(g1) ELSE g1) EXCEPT !.reset = begins]
  /\ UNCHANGED <<timeVars, dimVars, fadeVars, feed, modelVars, pandaVars, visionVars,
                 layoutVars, obs_touch, obs_lookup, measureVars>>
  /\ UNCHANGED <<obs_status, qui, clients, device>>


\* ------------------------------------------------------------------- Init
InitTime == lastTime = 0 /\ paramsCheckLast = 0
InitDim ==
  /\ screen_dim_mode = screen_dim_mode_max
  /\ screen_dim_mode_cur = screen_dim_mode_max
  /\ screen_dim_mode_last = screen_dim_mode_max
  /\ screen_dim_fade = -2000
  /\ screen_dim_fade_last_t = 0
  /\ screen_dim_fade_step = 2000
  /\ obs_dim = [ran |-> FALSE, started |-> FALSE, status |-> "STATUS_DISENGAGED",
                fade |-> -2000]
InitStatus ==
  /\ status = "STATUS_DISENGAGED"
  /\ started = FALSE
  /\ started_prev = FALSE
  /\ ignition = FALSE

InitFade ==
  /\ brake_percent = 0
  /\ brake_indicator_alpha = 0
  /\ brake_indicator_last_t = 0
  /\ one_pedal_fade = -FadeOne
  /\ one_pedal_fade_last_t = 0
  /\ sessionInitTime = 0
  /\ car_state = NoCarState
  /\ controls_state_vCruise = 0
  /\ disableDisengageOnGasEnabled = FALSE
  /\ onePedalModeActive = FALSE
  /\ dynamic_follow_level = 0
  /\ dynamic_follow_level_ui = 0
  /\ dynamic_follow_last_t = 0
  /\ obs_fade = [ran |-> FALSE, alpha |-> 0, brake_target |-> 0,
                 pedal |-> -FadeOne, pedal_cond |-> FALSE, pedal_frozen |-> FALSE,
                 pedal_dt |-> 0, was_frozen |-> FALSE,
                 level_ui |-> 0]
  /\ brake_held = -1

NoLead == [prob |-> 0, x |-> 0, y |-> 0]
NoModelV2 ==
  [position |-> LineAt(<<0, 0>>),
   lane_lines |-> [i \in 1 .. NumLaneLines |-> LineAt(<<0, 0>>)],
   lane_line_probs |-> [i \in 1 .. NumLaneLines |-> 0],
   road_edges |-> [i \in 1 .. NumRoadEdges |-> LineAt(<<0, 0>>)],
   leads |-> <<NoLead, NoLead>>]

\* ui_state = {0}: no calibration, empty buffers
InitScene ==
  /\ view_from_calib = Zero3
  /\ world_objects_visible = FALSE
  /\ track_vertices = EmptyLine
  /\ lane_line_vertices = [i \in 1 .. NumLaneLines |-> EmptyLine]
  /\ road_edge_vertices = [i \in 1 .. NumRoadEdges |-> EmptyLine]
  /\ lead_vertices = [i \in 1 .. 2 |-> NoVertex]
  /\ obs_model = [ran |-> FALSE, max_distance |-> 0, lines |-> <<>>]

InitNoModel == InitScene /\ modelV2 = NoModelV2 /\ model_pc = "none"

\* the SubMaster has not been updated; pandaType 0 is UNKNOWN
InitPanda ==
  /\ frame = 0
  /\ pandaState_rcv_frame = 0
  /\ pandaType = "UNKNOWN"
  /\ obs_panda = [ran |-> FALSE, updated |-> FALSE, pre_type |-> "UNKNOWN"]
InitVision ==
  /\ vipc_connected = FALSE
  /\ calib_seen = FALSE
  /\ obs_vision = [ran |-> FALSE, calib |-> FALSE, degenerate |-> FALSE,
                   connected_now |-> FALSE, since_connect |-> FALSE,
                   view_pre |-> Zero3, visible_pre |-> FALSE,
                   drawn_vision |-> FALSE, drawn_world |-> FALSE]

\* ui_state = {0}: every Rect is {0,0,0,0}; measure_cur_num_slots = 3
InitRects ==
  [one_pedal_touch_rect |-> ZeroRect, maxspeed_touch_rect |-> ZeroRect,
   speed_limit_sign_touch_rect |-> ZeroRect, wheel_touch_rect |-> ZeroRect,
   measure_slots_rect |-> ZeroRect,
   measure_slot_touch_rects |-> [i \in 1 .. measure_max_num_slots |-> ZeroRect],
   laneless_btn_touch_rect |-> ZeroRect, accel_mode_touch_rect |-> ZeroRect,
   dynamic_follow_mode_touch_rect |-> ZeroRect, screen_dim_touch_rect |-> ZeroRect]
InitLayout ==
  /\ sm_controlsState = NoControlsLayout
  /\ sm_longitudinalPlan = NoLongPlanLayout
  /\ engageable = FALSE
  /\ show_debug_ui = FALSE
  /\ end_to_end = FALSE
  /\ accel_mode_button_enabled = FALSE
  /\ dynamic_follow_mode_button_enabled = FALSE
  /\ measure_cur_num_slots = 3
  /\ rects = InitRects
  /\ obs_layout = [paints |-> 0, prev |-> InitRects, fade |-> -FadeOne]

InitCore ==
  InitTime /\ InitDim /\ InitStatus /\ InitFade /\ InitPanda /\ InitVision /\ InitLayout

NoTouch == [ran |-> FALSE, px |-> 0, py |-> 0, hits |-> {}]
NoLookup == [site |-> "none", index |-> 0, size |-> 1, outcome |-> "none"]
InitProbes ==
  /\ obs_touch = NoTouch
  /\ obs_lookup = NoLookup
  /\ lead_status = FALSE /\ lead_d_rel = 0 /\ lead_v_rel = 0
  /\ obs_measure = NoMeasure
  /\ obs_status = NoStatusObs
  /\ qui = InitQUIState
  /\ clients = InitClients
  /\ device = InitDevice
  /\ grade = InitGrade
InitParams == session_params = NoSessionParams /\ InitProbes

Init == InitCore /\ feed = "none" /\ InitNoModel /\ InitParams
InitFeeds == InitCore /\ feed \in Feeds /\ InitNoModel /\ InitParams
\* the params store is what it is when the program starts
InitLayoutFeeds ==
  /\ InitCore /\ feed \in LayoutFeeds /\ InitNoModel
  /\ session_params \in SessionParams /\ InitProbes
\* a modelV2 message is on its way
InitModel ==
  /\ InitCore /\ feed = "none" /\ InitScene /\ InitParams
  /\ modelV2 \in ModelV2s /\ model_pc = "pending"

\* ------------------------------------------------- the tick, dimming part
\* QUIState::update restricted to the state the dimming controller reads and
\* writes: params poll, screen dim, ignition/started, update_status.
TickDim ==
  \E t \in Clock, panda \in PandaStates, devStarted \in BOOLEAN :
    /\ ParamsCheckDim(t)
    /\ UpdateScreenDim(t)
    /\ ignition' = PandaIgnition(panda)
    /\ started' = SceneStarted(devStarted, ignition')
    /\ IF started'
         THEN \E cs \in ControlsStates : UpdateStatus(cs)
         ELSE UpdateStatus(NoControlsState)
    /\ UpdateTime(t)
    /\ UNCHANGED <<fadeVars, feed, modelVars, pandaVars, visionVars, layoutVars, probeVars>>

\* ------------------------------------------- the tick, fades and level ease
\* QUIState::update restricted to the state the brake fade, the one-pedal
\* fade and the follow-level ease read and write.
TickFade ==
  \E t \in Clock, car \in CarStates, cs \in ControlsStatesFade, lp \in LongPlans,
     panda \in PandaStatesFade, devStarted \in DeviceStartedFade,
     pBrake \in ParamsBrakePercent :
    /\ ParamsCheckFade(t)
    /\ ignition' = PandaIgnition(panda)
    /\ started' = SceneStarted(devStarted, ignition')
    /\ UpdateFades(t, car, cs, lp, pBrake)
    /\ UpdateStatus(cs)
    /\ UpdateTime(t)
    /\ UNCHANGED <<dimVars, feed, modelVars, pandaVars, visionVars, layoutVars, probeVars>>

NextFade == TickFade
SpecFade == InitFeeds /\ [][NextFade]_vars

\* carState.onePedalModeActive alone drives the one-pedal fade
InitPedal == InitCore /\ feed = "pedal_icon" /\ InitNoModel /\ InitParams
NextPedal == TickFade \/ DrawMaxspeed
SpecPedal == InitPedal /\ [][NextPedal]_vars

\* the same, followed until the session is older than 3 s
InitWindow == InitCore /\ feed = "pedal_window" /\ InitNoModel /\ InitParams
NextWindow == TickFade
SpecWindow == InitWindow /\ [][NextWindow]_vars

NextStatus == TickStatus
SpecStatus == Init /\ [][NextStatus]_vars

NextQUI == TickQUI
SpecQUI == Init /\ [][NextQUI]_vars

NextClients == TickClients \/ Paint
SpecClients == Init /\ [][NextClients]_vars

NextWake == UpdateWakefulness
SpecWake == Init /\ [][NextWake]_vars

NextPower == UpdateWakefulness \/ CallSetAwake
SpecPower == Init /\ [][NextPower]_vars

NextBacklight == UpdateBrightness \/ WriterApplies \/ CallSetAwake
SpecBacklight == Init /\ [][NextBacklight]_vars

NextGrade == TickGrade
SpecGrade == Init /\ [][NextGrade]_vars

NextDim == TickDim
SpecDim == Init /\ [][NextDim]_vars

NextPanda == TickPanda
SpecPanda == Init /\ [][NextPanda]_vars

NextVision == TickVision \/ Paint
SpecVision == Init /\ [][NextVision]_vars

NextLayout == TickLayout \/ Paint
SpecLayout == InitLayoutFeeds /\ [][NextLayout]_vars

NextTouch == TickLayout \/ Paint \/ Touch
\* the dim button's inputs only
InitTouch == InitLayoutFeeds /\ feed = "dim"
SpecTouch == InitTouch /\ [][NextTouch]_vars

NextIndex == ReadScreenDimModes \/ ReadBgColors \/ ReadTcsColors
SpecIndex == Init /\ [][NextIndex]_vars

NextMeasure == RecvRadarState \/ DrawLeadTtc
SpecMeasure == Init /\ [][NextMeasure]_vars

NextModel == RecvModelV2 \/ RecvLiveCalibration
SpecModel == InitModel /\ [][NextModel]_vars

\* ------------------------------------------------------------------ claims
\* C1: after every update_state call while onroad, screen_dim_fade lies within
\* [screen_dim_modes_v[0], screen_dim_modes_v[screen_dim_mode_max]] and has
\* moved only toward, never away from and never past, the current tier's
\* target screen_dim_modes_v[screen_dim_mode_cur].
C1_DimFadeTowardTarget ==
  (obs_dim.ran /\ obs_dim.started) =>
    LET target == DimV(screen_dim_mode_cur)
    IN  /\ DimV(0) <= screen_dim_fade /\ screen_dim_fade <= DimV(screen_dim_mode_max)
        /\ obs_dim.fade <= target =>
              (obs_dim.fade <= screen_dim_fade /\ screen_dim_fade <= target)
        /\ obs_dim.fade >= target =>
              (target <= screen_dim_fade /\ screen_dim_fade <= obs_dim.fade)

NotPast(pre, post, target) ==
  /\ pre <= target => post <= target
  /\ pre >= target => post >= target

\* C2: brake_indicator_alpha stays in [0,1], one_pedal_fade stays in [-1,1],
\* and in a single update_state call neither they nor
\* dynamic_follow_level_ui move past their target (1 or 0 for the brake fade,
\* +1 or -1 for the one-pedal fade, dynamic_follow_level for the level ease).
C2_FadesInDomainNotPastTarget ==
  /\ 0 <= brake_indicator_alpha /\ brake_indicator_alpha <= FadeOne
  /\ -FadeOne <= one_pedal_fade /\ one_pedal_fade <= FadeOne
  /\ obs_fade.ran =>
       /\ NotPast(obs_fade.alpha, brake_indicator_alpha, obs_fade.brake_target)
       /\ NotPast(obs_fade.pedal, one_pedal_fade,
                  IF obs_fade.pedal_cond THEN FadeOne ELSE -FadeOne)
       /\ NotPast(obs_fade.level_ui, dynamic_follow_level_ui, dynamic_follow_level)

\* C2 witness: the one-pedal fade, not frozen, was below +1 with its
\* condition true and the call took it to +1, where it was clamped.
C2_Witness ==
  /\ obs_fade.ran /\ ~obs_fade.pedal_frozen /\ obs_fade.pedal_cond
  /\ obs_fade.pedal < FadeOne
  /\ one_pedal_fade = FadeOne

\* C8: from brake_indicator_alpha = 0, with brake_percent > 50 on every tick,
\* once the elapsed times of the update_state calls sum to fade_duration the
\* value is >= 0.99 and <= 1.0, however the 0.3 s are split into ticks.
C8_BrakeFadeReachesOne ==
  brake_held = fade_duration =>
    /\ 100 * brake_indicator_alpha >= 99 * FadeOne
    /\ brake_indicator_alpha <= FadeOne

\* C8 witness: the 0.3 s were made of more than one tick (the fade was
\* strictly between 0 and 1 before the last of them).
C8_Witness ==
  /\ brake_held = fade_duration
  /\ 0 < obs_fade.alpha /\ obs_fade.alpha < FadeOne
  /\ brake_indicator_alpha = FadeOne

\* ------------------------------------------------------------ ribbon claims
VisibleCalls(line) == {k \in 1 .. Len(line.calls) : line.calls[k].visible}
AllCalls == UNION {{l.calls[k] : k \in 1 .. Len(l.calls)} :
                   l \in {obs_model.lines[i] : i \in 1 .. Len(obs_model.lines)}}
ModelLines == {obs_model.lines[i] : i \in 1 .. Len(obs_model.lines)}

\* C4 (as claimed): after update_line_data has built a ribbon with max_idx,
\* its count is 2 * (max_idx + 1), whatever the projection of its samples.
C4_CntIsTwiceSamples ==
  obs_model.ran => \A l \in ModelLines : l.cnt = 2 * (l.max_idx + 1)

\* C4 (amended): update_line_data projects 2 * (max_idx + 1) vertices and
\* its count is the number of those that are visible: at most
\* 2 * (max_idx + 1), and equal to it exactly when every one is visible.
C4_CntIsVisibleVertices ==
  obs_model.ran =>
    /\ \A l \in ModelLines :
         /\ Len(l.calls) = 2 * (l.max_idx + 1)
         /\ l.cnt = Cardinality(VisibleCalls(l))
         /\ l.cnt <= 2 * (l.max_idx + 1)
         /\ (l.cnt = 2 * (l.max_idx + 1)) <=> (\A k \in 1 .. Len(l.calls) : l.calls[k].visible)
    /\ track_vertices.cnt = obs_model.lines[NumLaneLines + NumRoadEdges + 1].cnt

\* a path ribbon, some of whose vertices are outside the clipping margin,
\* next to a lane line all of whose vertices are visible
C4_Witness ==
  /\ obs_model.ran
  /\ track_vertices.cnt > 0
  /\ track_vertices.cnt < 2 * (obs_model.lines[NumLaneLines + NumRoadEdges + 1].max_idx + 1)
  /\ lane_line_vertices[1].cnt = 2 * (obs_model.lines[1].max_idx + 1)

\* C5: every vertex update_line_data writes is at an index below the
\* capacity of the buffer, and the count it leaves is at most the capacity;
\* max_idx is in 0 .. TRAJECTORY_SIZE - 1.
C5_VerticesWithinCapacity ==
  obs_model.ran =>
    \A l \in ModelLines :
      /\ l.max_idx \in 0 .. TRAJECTORY_SIZE - 1
      /\ l.top < VertexCapacity
      /\ l.cnt <= VertexCapacity

\* a ribbon that fills its buffer to the last vertex
C5_Witness ==
  /\ obs_model.ran
  /\ \E l \in ModelLines : l.top = 2 * TRAJECTORY_SIZE - 1 /\ l.cnt = 2 * TRAJECTORY_SIZE

PixelsOutside(c) ==
  {IF c.x < 0 THEN -c.x ELSE IF c.x > fb_w THEN c.x - fb_w ELSE 0,
   IF c.y < 0 THEN -c.y ELSE IF c.y > fb_h THEN c.y - fb_h ELSE 0}

\* C6 (as claimed): a point that projects 600 pixels outside the framebuffer
\* is visible, one that projects 1600 pixels outside is not.
C6_Visible600Outside ==
  \A c \in AllCalls :
    c.finite => /\ (600 \in PixelsOutside(c) /\ PixelsOutside(c) \subseteq {0, 600} => c.visible)
                /\ (1600 \in PixelsOutside(c) => ~c.visible)

\* C6 (amended): a point is visible exactly when its pixel is at most
\* margin = 500 pixels outside the framebuffer on both axes; 600 pixels
\* outside it is not visible, no more than 1600 pixels outside.
C6_VisibleWithinMargin ==
  \A c \in AllCalls :
    c.finite => /\ c.visible <=> (\A o \in PixelsOutside(c) : o <= 500)
                /\ (600 \in PixelsOutside(c) => ~c.visible)
                /\ (1600 \in PixelsOutside(c) => ~c.visible)

\* one message with a point 400 pixels outside (visible), one 600 and one
\* 1600 pixels outside (not visible)
C6_Witness ==
  /\ \E c \in AllCalls : c.finite /\ PixelsOutside(c) = {0, 400} /\ c.visible
  /\ \E c \in AllCalls : c.finite /\ PixelsOutside(c) = {0, 600} /\ ~c.visible
  /\ \E c \in AllCalls : c.finite /\ PixelsOutside(c) = {0, 1600} /\ ~c.visible

LeadOne == modelV2.leads[1]

\* C7 (as claimed): with lead one there at distance d, the draw distance of
\* the path is at most 0.35 * d, and is MIN_DRAW_DISTANCE when 0.35 * d is
\* smaller than that.
C7_DrawDistanceAtMost35Percent ==
  obs_model.ran /\ LeadOne.prob > 50 =>
    IF 35 * LeadOne.x < 100 * MIN_DRAW_DISTANCE
      THEN obs_model.max_distance = MIN_DRAW_DISTANCE
      ELSE 100 * obs_model.max_distance <= 35 * LeadOne.x

\* C7 (amended): with lead one there at distance d, the draw distance of the
\* path is 2 * d - min(0.7 * d, 10 m) (1.3 * d up to d = 14.3 m), limited to
\* the range from 0 to the draw distance without a lead, itself the last
\* path sample limited to MIN_DRAW_DISTANCE .. MAX_DRAW_DISTANCE; it is not
\* raised to MIN_DRAW_DISTANCE.
C7_DrawDistanceBehindLead ==
  obs_model.ran /\ LeadOne.prob > 50 =>
    LET d    == LeadOne.x
        last == modelV2.position.x[TRAJECTORY_SIZE]
        free == IF last < MIN_DRAW_DISTANCE THEN MIN_DRAW_DISTANCE
                ELSE IF last > MAX_DRAW_DISTANCE THEN MAX_DRAW_DISTANCE ELSE last
        want == IF 7 * d <= 100000 THEN (13 * d) \div 10 ELSE 2 * d - 10000
    IN  /\ obs_model.max_distance >= 0
        /\ obs_model.max_distance <= free
        /\ obs_model.max_distance = IF want < free THEN want ELSE free

\* a lead at 5 m: the path is drawn to 6.5 m, below MIN_DRAW_DISTANCE
C7_Witness ==
  /\ obs_model.ran /\ LeadOne.prob > 50 /\ LeadOne.x = 5000
  /\ obs_model.max_distance = 6500
  /\ obs_model.max_distance < MIN_DRAW_DISTANCE

\* ---------------------------------------------------- staleness, visibility
\* C9: in a tick without a pandaState message and with more than 5 * UI_FREQ
\* frames since pandaState was last received, pandaType is set to UNKNOWN;
\* it stays UNKNOWN in every tick until a message arrives; and while the
\* silence is at most 5 * UI_FREQ frames a tick without a message leaves
\* pandaType as it was.
C9_PandaTypeStale ==
  obs_panda.ran /\ ~obs_panda.updated =>
    /\ (frame - pandaState_rcv_frame > 5 * UI_FREQ => pandaType = "UNKNOWN")
    /\ (obs_panda.pre_type = "UNKNOWN" => pandaType = "UNKNOWN")
    /\ (frame - pandaState_rcv_frame <= 5 * UI_FREQ => pandaType = obs_panda.pre_type)

\* the tick in which a known panda type is forgotten, 101 frames after
\* the last message
C9_Witness ==
  /\ obs_panda.ran /\ ~obs_panda.updated
  /\ obs_panda.pre_type # "UNKNOWN" /\ pandaType = "UNKNOWN"
  /\ pandaState_rcv_frame > 0
  /\ frame - pandaState_rcv_frame = 5 * UI_FREQ + 1

\* C10: world_objects_visible is false as long as no liveCalibration message
\* has been processed; a tick makes it true only when it processes a
\* liveCalibration message; ui_draw_world is called only while it is true.
C10_WorldObjectsVisible ==
  /\ ~calib_seen => ~world_objects_visible
  /\ (world_objects_visible /\ ~obs_vision.visible_pre => obs_vision.calib)
  /\ (obs_vision.drawn_world => world_objects_visible)

\* the world drawn, onroad, after a calibration that came after the client
\* had connected
C10_Witness ==
  /\ obs_vision.drawn_world /\ world_objects_visible /\ calib_seen
  /\ started /\ vipc_connected

\* ------------------------------------------------------------ layout claims
DrawVision == started /\ vipc_connected
Unhittable(r) == r = NoTouchRect \/ r = ZeroRect
SpeedLimitShown == DrawVision /\ sm_longitudinalPlan.speedLimit > 0 /\ engageable
MeasuresShown ==
  DrawVision /\ sm_controlsState.alertSize \in {"NONE", "SMALL"} /\ measure_cur_num_slots # 0

\* C11: after every rendered frame, every indicator that is hidden, disabled
\* or inactive in that frame has the hit region {1,1,1,1} (a region never
\* written, {0,0,0,0}, is let pass here): the speed-limit sign when it is
\* not shown, the measure slots from measure_cur_num_slots on or when the
\* panel is not drawn, the one-pedal icon and the max-speed box when the
\* other is shown, the wheel when not engageable, the laneless, accel-mode
\* and follow-mode buttons when disabled, the dim button when offroad.
C11_HiddenHaveNoHitRegion ==
  obs_layout.paints >= 1 =>
    /\ (~SpeedLimitShown => Unhittable(rects.speed_limit_sign_touch_rect))
    /\ \A i \in 1 .. measure_max_num_slots :
         (~MeasuresShown \/ i > measure_cur_num_slots)
           => Unhittable(rects.measure_slot_touch_rects[i])
    /\ (DrawVision /\ one_pedal_fade > 0 => Unhittable(rects.maxspeed_touch_rect))
    /\ (DrawVision /\ ~(one_pedal_fade > 0) => Unhittable(rects.one_pedal_touch_rect))
    /\ (~engageable => Unhittable(rects.wheel_touch_rect))
    /\ (~end_to_end => Unhittable(rects.laneless_btn_touch_rect))
    /\ (~accel_mode_button_enabled => Unhittable(rects.accel_mode_touch_rect))
    /\ (~dynamic_follow_mode_button_enabled
          => Unhittable(rects.dynamic_follow_mode_touch_rect))
    /\ (~started => Unhittable(rects.screen_dim_touch_rect))

\* C12: a touch is never inside a hit region that is {1,1,1,1}.
C12_SentinelNeverHit ==
  \A h \in obs_touch.hits : h.rect # NoTouchRect


\* C13: the hit-region computation is idempotent: rendering a second frame
\* with no tick in between leaves every hit region, and the panel frame the
\* accel-mode and follow-mode buttons are placed against, as the first frame
\* left them.
C13_LayoutIdempotent ==
  obs_layout.paints >= 2 => rects = obs_layout.prev
\* two frames drawn in a row with the panel shown beside a small alert and
\* both right-side buttons placed against it
C13_Witness ==
  /\ obs_layout.paints >= 2
  /\ DrawVision
  /\ sm_controlsState.alertSize = "SMALL"
  /\ measure_cur_num_slots > 0
  /\ accel_mode_button_enabled
  /\ dynamic_follow_mode_button_enabled
  /\ rects.accel_mode_touch_rect \notin {NoTouchRect, ZeroRect}
  /\ rects.measure_slots_rect = MeasureGeometry(measure_cur_num_slots).rect


\* two rectangles share a pixel
Overlap(a, b) ==
  a.x < b.x + b.w /\ b.x < a.x + a.w /\ a.y < b.y + b.h /\ b.y < a.y + a.h
Inside(a, b) ==
  b.x <= a.x /\ a.x + a.w <= b.x + b.w /\ b.y <= a.y /\ a.y + a.h <= b.y + b.h
\* the hit regions of the indicators that the frame just rendered shows
ActiveRects ==
  {h \in TouchRects :
     \/ h.name = "one_pedal_touch_rect" /\ one_pedal_fade > 0
     \/ h.name = "maxspeed_touch_rect" /\ ~(one_pedal_fade > 0)
     \/ h.name = "speed_limit_sign_touch_rect" /\ SpeedLimitShown
     \/ h.name = "wheel_touch_rect" /\ h.rect = WheelRect
     \/ h.name = "laneless_btn_touch_rect" /\ end_to_end
     \/ h.name = "accel_mode_touch_rect" /\ accel_mode_button_enabled
     \/ h.name = "dynamic_follow_mode_touch_rect" /\ dynamic_follow_mode_button_enabled
     \/ h.name = "screen_dim_touch_rect" /\ h.rect # NoTouchRect
     \/ /\ h.name = "measure_slot_touch_rects" /\ MeasuresShown
        /\ \E i \in 1 .. measure_cur_num_slots : h.rect = rects.measure_slot_touch_rects[i]}

\* C14: after a rendered frame the hit regions of the shown indicators are
\* pairwise disjoint, for every flag, alert size and slot count: in
\* particular the accel-mode and follow-mode regions when both buttons are
\* enabled, and the active slot regions, which also lie inside
\* measure_slots_rect.
C14_HitRegionsDisjoint ==
  obs_layout.paints >= 1 /\ DrawVision =>
    /\ \A h, g \in ActiveRects : h # g => ~Overlap(h.rect, g.rect)
    /\ MeasuresShown =>
         \A i \in 1 .. measure_cur_num_slots :
           Inside(rects.measure_slot_touch_rects[i], rects.measure_slots_rect)


\* C15: rendering only reads the scene: the scene's hit regions after a
\* rendered frame are those the last tick left (obs_layout.prev holds them
\* as they were when the frame began).
C15_RenderingOnlyReads ==
  obs_layout.paints >= 1 => rects = obs_layout.prev


\* C16: a liveCalibration message with a degenerate orientation leaves
\* view_from_calib at its last good value and world_objects_visible false.
C16_MalformedCalibrationIgnored ==
  obs_vision.ran /\ obs_vision.degenerate =>
    view_from_calib = obs_vision.view_pre /\ ~world_objects_visible


\* C17: an index outside its lookup table (screen_dim_modes_v indexed from
\* ScreenDimMode, bg_colors from the one-pedal brake mode plus one,
\* tcs_colors from the vision-turn state) stops the program before the
\* table is read.
C17_OutOfRangeIndexAborts ==
  obs_lookup.index \notin 0 .. obs_lookup.size - 1 => obs_lookup.outcome = "fault"


\* C18: the LEAD_TTC slot never divides by a lead_v_rel of 0; with no lead
\* or with lead_v_rel >= 0 it shows "-"; and a quotient above 99 s is shown
\* as the sentinel "99+", never as a number.
C18_TtcGuarded ==
  obs_measure.drawn =>
    /\ (obs_measure.divided => lead_v_rel # 0)
    /\ (~lead_status \/ lead_v_rel >= 0 => obs_measure.val = "-")
    /\ (obs_measure.val \in {"%.0f", "%.1f"} =>
          /\ obs_measure.divided
          /\ ~QuotientAbove(-lead_d_rel, lead_v_rel, 99))
\* a lead 5 m ahead closing in at 1 mm/s: 5000 s to contact
C18_Witness ==
  /\ obs_measure.drawn /\ obs_measure.divided
  /\ lead_status /\ lead_v_rel = -1 /\ lead_d_rel = 5000
  /\ obs_measure.val = "99+"


\* C19 (as amended): when update_state runs onroad with status
\* STATUS_WARNING, screen_dim_mode_cur is one tier above the configured
\* screen_dim_mode, saturating at screen_dim_mode_max, which is the brightest
\* tier: the target brightness is never lower than the configured tier's.
C19_WarningOneTierBrighter ==
  (obs_dim.ran /\ obs_dim.started /\ obs_dim.status = "STATUS_WARNING") =>
    /\ screen_dim_mode_cur =
         (IF screen_dim_mode = screen_dim_mode_max THEN screen_dim_mode_max
          ELSE screen_dim_mode + 1)
    /\ DimV(screen_dim_mode_cur) >= DimV(screen_dim_mode)
\* a warning met the dimmest configured tier and the target went up to the
\* middle tier
C19_Witness ==
  /\ obs_dim.ran /\ obs_dim.started /\ obs_dim.status = "STATUS_WARNING"
  /\ screen_dim_mode = 0
  /\ screen_dim_mode_cur = 1
  /\ DimV(screen_dim_mode_cur) > DimV(screen_dim_mode)

\* C19 as stated: under STATUS_WARNING while onroad screen_dim_mode_cur is
\* one tier dimmer than screen_dim_mode, saturating at the dimmest tier, and
\* the target brightness is never higher than the configured tier's.
C19_WarningOneTierDimmer ==
  (obs_dim.ran /\ obs_dim.started /\ obs_dim.status = "STATUS_WARNING") =>
    /\ screen_dim_mode_cur = (IF screen_dim_mode = 0 THEN 0 ELSE screen_dim_mode - 1)
    /\ DimV(screen_dim_mode_cur) <= DimV(screen_dim_mode)


\* the path's samples, the bound update_model cut them at, and the index
\* get_path_length_idx gave
PathX == modelV2.position.x
PathBound == obs_model.max_distance
PathMaxIdx == obs_model.lines[NumLaneLines + NumRoadEdges + 1].max_idx
SamplesBelow == {i \in 0 .. TRAJECTORY_SIZE - 1 : PathX[i + 1] < PathBound}
\* the samples from 0 on that are below the bound with nothing at or above it
\* before them
LeadingBelow ==
  {i \in 0 .. TRAJECTORY_SIZE - 1 : \A j \in 0 .. i : PathX[j + 1] < PathBound}

\* C20 (as amended): get_path_length_idx(line, bound) returns the last index
\* of the leading run of samples below the bound, that is the greatest i such
\* that line_x[0 .. i] are all below the bound, and 0 when sample 0 is not
\* below it; this is the greatest i < TRAJECTORY_SIZE with line_x[i] < bound
\* whenever no sample below the bound comes after one that is not (as when x
\* does not decrease) and sample 0 is below the bound.
C20_PathLengthIsLeadingRun ==
  obs_model.ran =>
    /\ PathMaxIdx = (IF LeadingBelow = {} THEN 0 ELSE Cardinality(LeadingBelow) - 1)
    /\ (LeadingBelow = SamplesBelow /\ SamplesBelow # {} =>
          PathMaxIdx \in SamplesBelow /\ \A i \in SamplesBelow : i <= PathMaxIdx)
\* the path leaves the bound at sample 1 and is back under it at sample 2:
\* the index stays 0
C20_Witness ==
  /\ obs_model.ran
  /\ PathX[1] < PathBound /\ PathX[2] >= PathBound /\ PathX[3] < PathBound
  /\ PathMaxIdx = 0

\* C20 as stated: get_path_length_idx returns the greatest i <
\* TRAJECTORY_SIZE with line_x[i] < bound, for every sample sequence.
C20_PathLengthIsGreatestBelow ==
  obs_model.ran /\ SamplesBelow # {} =>
    PathMaxIdx \in SamplesBelow /\ \A i \in SamplesBelow : i <= PathMaxIdx


\* ------------------------------------------------------- one-pedal claims
\* C21: after every call of ui_draw_vision_maxspeed exactly one of
\* maxspeed_touch_rect and one_pedal_touch_rect is a real region, the
\* icon's when one_pedal_fade > 0 and the box's otherwise, the other being
\* {1,1,1,1}; and outside the session-start delay a tick with the one-pedal
\* condition true (false) never moves one_pedal_fade down (up), never past
\* +1 (-1), and leaves it at +1 (-1) once it is there.
C21_PedalAndBoxExclusive ==
  /\ obs_layout.paints >= 1 =>
       /\ (rects.one_pedal_touch_rect = NoTouchRect) # (rects.maxspeed_touch_rect = NoTouchRect)
       /\ (obs_layout.fade > 0 =>
             rects.one_pedal_touch_rect = PedalRect /\ rects.maxspeed_touch_rect = NoTouchRect)
       /\ (obs_layout.fade <= 0 =>
             rects.maxspeed_touch_rect = maxspeed_rect
             /\ rects.one_pedal_touch_rect = NoTouchRect)
  /\ obs_fade.ran /\ ~obs_fade.pedal_frozen =>
       /\ -FadeOne <= one_pedal_fade /\ one_pedal_fade <= FadeOne
       /\ (obs_fade.pedal_cond =>
             one_pedal_fade >= obs_fade.pedal
             /\ (obs_fade.pedal = FadeOne => one_pedal_fade = FadeOne))
       /\ (~obs_fade.pedal_cond =>
             one_pedal_fade <= obs_fade.pedal
             /\ (obs_fade.pedal = -FadeOne => one_pedal_fade = -FadeOne))
\* the fade has come up to +1 under a true condition and the icon has been
\* drawn with the box's region taken away
C21_Witness ==
  /\ obs_fade.ran /\ ~obs_fade.pedal_frozen /\ obs_fade.pedal_cond
  /\ obs_fade.pedal < FadeOne /\ one_pedal_fade = FadeOne
  /\ obs_layout.paints >= 1 /\ obs_layout.fade = FadeOne
  /\ rects.one_pedal_touch_rect = PedalRect
  /\ rects.maxspeed_touch_rect = NoTouchRect


\* ---------------------------------------------------- tick and device claims
\* C22: after every tick world_objects_visible is true exactly when a
\* liveCalibration message has been processed since the last successful
\* connect of the vision client (since the start if there was none); a
\* message processed in the tick of the connect does not count, so the flag
\* is false at the end of that tick.
C22_VisibleSinceConnect ==
  /\ world_objects_visible = obs_vision.since_connect
  /\ (obs_vision.connected_now => ~world_objects_visible)
\* a calibration arrived in the tick of the connect, after an earlier one had
\* made the world objects visible while offroad
C22_Witness ==
  /\ obs_vision.ran /\ obs_vision.connected_now /\ obs_vision.calib
  /\ obs_vision.visible_pre
  /\ ~world_objects_visible


\* C23: in the tick where started goes from false to true the status is
\* STATUS_DISENGAGED after update_status, whatever controlsState message
\* the tick processed; in any other onroad tick with a controlsState update
\* it is WARNING for USER_PROMPT, ALERT for CRITICAL, else ENGAGED or
\* DISENGAGED as enabled says; with no update, or offroad, it is unchanged.
C23_StatusAfterTick ==
  obs_status.ran =>
    LET starts == started /\ ~obs_status.started_pre
        cs == obs_status.cs
    IN  /\ starts => status = "STATUS_DISENGAGED"
        /\ started /\ ~starts /\ cs.updated =>
             status = (IF cs.alert = "USER_PROMPT" THEN "STATUS_WARNING"
                       ELSE IF cs.alert = "CRITICAL" THEN "STATUS_ALERT"
                       ELSE IF cs.enabled THEN "STATUS_ENGAGED"
                       ELSE "STATUS_DISENGAGED")
        /\ (~started \/ (~starts /\ ~cs.updated)) => status = obs_status.status_pre
\* a session started in a tick that processed a critical alert, the status
\* before being engaged
C23_Witness ==
  /\ obs_status.ran /\ started /\ ~obs_status.started_pre
  /\ obs_status.cs.updated /\ obs_status.cs.alert = "CRITICAL"
  /\ obs_status.status_pre = "STATUS_ENGAGED"
  /\ status = "STATUS_DISENGAGED"


\* C24: QUIState::update emits offroadTransition in exactly the ticks where
\* started differs from what it was at the previous emission, or the frame
\* is 1; the argument is !started and the same tick sets the timer's
\* interval to 0 onroad and to 1000 / UI_FREQ ms offroad; uiUpdate is the
\* last step of every tick, after every update_* step.
C24_TransitionEmissions ==
  qui.ran =>
    /\ qui.emitted <=> (frame = 1 \/ (qui.last.some /\ started # qui.last.val))
    /\ qui.emitted =>
         /\ qui.arg = ~started
         /\ qui.interval = (IF started THEN 0 ELSE 50)
    /\ frame > 1 => qui.last.some
    /\ LET n == Len(qui.steps)
       IN  /\ qui.steps[n] = "uiUpdate"
           /\ \A k \in 1 .. n :
                qui.steps[k] \in {"update_params", "update_sockets", "update_state",
                                  "update_status", "update_vision"} => k < n
           /\ \A name \in {"update_params", "update_sockets", "update_state",
                           "update_status", "update_vision"} :
                \E k \in 1 .. n - 1 : qui.steps[k] = name
\* the first tick finds the car already started: the transition is emitted
\* although started equals the initial started_prev
C24_Witness ==
  /\ qui.ran /\ frame = 1 /\ started
  /\ qui.emitted /\ ~qui.arg /\ qui.interval = 0


\* C25: at the end of every tick the vision client in use is connected only
\* if started is true, whatever the sequence of starts, stops and camera
\* choices, and ui_draw draws the vision layer only while started.
C25_ConnectedOnlyOnroad ==
  /\ clients[clients.active] => started
  /\ vipc_connected = clients[clients.active]
  /\ obs_vision.drawn_vision => started /\ clients[clients.active]
\* the wide client was connected and the car has just gone offroad, after an
\* earlier session on the rear client
C25_Witness ==
  /\ clients.ran /\ clients.active = "wide" /\ clients.was_connected
  /\ ~started /\ ~clients.wide /\ ~clients.rear


\* C26: when a wake condition held at a call of Device::update and at none
\* since, the display is awake after each of the next 30 * UI_FREQ - 1
\* calls and is switched off by the call after those; awake_timeout stays in
\* 0 .. 30 * UI_FREQ.
C26_WakeTimeout ==
  /\ 0 <= device.awake_timeout /\ device.awake_timeout <= 600
  /\ device.since \in 1 .. 599 => device.awake
  /\ device.since >= 600 => ~device.awake
  /\ device.since = 600 =>
       device.awake_pre /\ device.power.some /\ ~device.power.val
\* the last call of the awake period: one more and the display goes off
C26_Witness ==
  /\ device.ran /\ device.since = 599 /\ device.awake /\ device.awake_timeout = 1


\* C27: Device::setAwake sets the display power and emits
\* displayPowerChanged only when the requested state differs from awake, so
\* successive emissions alternate between true and false; a call with
\* on = awake changes nothing but, when reset is set, the timeout.
C27_PowerEdgeTriggered ==
  device.ran =>
    /\ device.power.some <=> (device.on # device.awake_pre)
    /\ device.power.some => device.power.val = device.on
    /\ (device.power.some /\ device.power_last.some)
         => device.power.val # device.power_last.val
    /\ device.on = device.awake_pre =>
         /\ device.awake = device.awake_pre
         /\ ~device.reset => device.awake_timeout = device.timeout_pre
         /\ device.reset => device.awake_timeout = 600
\* the display is switched on after it had been switched off
C27_Witness ==
  /\ device.ran /\ device.power.some /\ device.power.val
  /\ device.power_last.some /\ ~device.power_last.val
\* a call that asks for the state the display is in and restarts the timeout
C27_WitnessNoChange ==
  /\ device.ran /\ device.on = device.awake_pre /\ device.reset
  /\ ~device.power.some /\ device.timeout_pre < 600


\* C28: updateBrightness starts a write only when the computed brightness
\* differs from last_brightness, and once every writer thread has finished
\* the backlight holds the value computed last (last_brightness).
C28_BacklightWritesInOrder ==
  /\ device.wrote => device.computed # device.last_pre
  /\ (device.launched /\ device.writers = <<>>)
       => device.hw = device.last_brightness


\* C29: after a tick that starts a session every entry of
\* percentGradeAltitudes, percentGradePositions and percentGrades is zero,
\* percentGrade is 0, percentGradeRollingIter is 0 and percentGradeIterRolled
\* is false; percentGradeRollingIter stays in 0 .. percentGradeNumSamples - 1.
C29_GradeStateReset ==
  /\ grade.reset =>
       /\ \A i \in 1 .. 10 :
            grade.alts[i] = 0 /\ grade.pos[i] = 0 /\ grade.grades[i] = 0
       /\ grade.percentGrade = 0 /\ grade.iter = 0 /\ ~grade.rolled
  /\ grade.iter \in 0 .. 9
\* the part of C29 the code keeps: the scalars are reset, the first five
\* entries are cleared and the index stays in range
C29_GradeScalarsReset ==
  /\ grade.reset =>
       /\ \A i \in 1 .. 5 :
            grade.alts[i] = 0 /\ grade.pos[i] = 0 /\ grade.grades[i] = 0
       /\ grade.percentGrade = 0 /\ grade.iter = 0 /\ ~grade.rolled
  /\ grade.iter \in 0 .. 9


\* C30: in a tick with t - sessionInitTime <= 3 s update_state leaves
\* one_pedal_fade as it was, whatever the vehicle state, and still sets
\* one_pedal_fade_last_t to t; the first tick after the window moves the fade
\* by one tick's elapsed time at most.
C30_PedalFadeFrozenAtStart ==
  obs_fade.ran =>
    /\ one_pedal_fade_last_t = lastTime
    /\ obs_fade.pedal_frozen => one_pedal_fade = obs_fade.pedal
    /\ (obs_fade.was_frozen /\ ~obs_fade.pedal_frozen) =>
         /\ obs_fade.pedal_dt <= MaxDt
         /\ one_pedal_fade - obs_fade.pedal <= obs_fade.pedal_dt
         /\ obs_fade.pedal - one_pedal_fade <= obs_fade.pedal_dt
\* the first tick after the window, with the one-pedal condition on:
\* the fade has left -1 and is one tick's step above it
C30_Witness ==
  /\ obs_fade.ran /\ obs_fade.was_frozen /\ ~obs_fade.pedal_frozen
  /\ obs_fade.pedal_cond /\ obs_fade.pedal = -3 /\ obs_fade.pedal_dt > 0
  /\ one_pedal_fade = -3 + obs_fade.pedal_dt
\* a tick inside the window with the one-pedal condition on and the fade held
C30_WitnessFrozen ==
  /\ obs_fade.ran /\ obs_fade.pedal_frozen /\ obs_fade.pedal_cond
  /\ obs_fade.pedal = -3 /\ one_pedal_fade = -3 /\ sessionInitTime > 0
  /\ lastTime > sessionInitTime
====
